---------------------------- MODULE Spec2Model ----------------------------
(***************************************************************************)
(* A model of the model-router framework: the configuration loader         *)
(* (src/src/config_loader.py), the feature extractor                       *)
(* (src/src/utils/text_analysis.py), the selector, the dispatcher and the  *)
(* resilient invoker (src/src/router.py) and the call handle               *)
(* (src/src/models.py).                                                    *)
(*                                                                         *)
(* Conventions.  A Python Optional value is a sequence of length at most   *)
(* one: None is <<>> and a present value v is <<v>>.  A dict is a function *)
(* whose DOMAIN is its key set; a missing key is a key outside DOMAIN.  A  *)
(* text is abstracted to what the extractor reads of it: its length, its   *)
(* number of ASCII characters and whether it holds a trigger phrase.  An   *)
(* exception message is a sequence of one-character strings.  A            *)
(* RouterConfig object lives in heap and is held by reference (its index), *)
(* so that the loader's cache and a router's _config can be one object.    *)
(***************************************************************************)
EXTENDS Integers, Sequences, FiniteSets, TLC

VARIABLES
    raw,            \* the configuration the loader reads (models.json, routing_rules.json)
    cache,          \* ConfigLoader._cache: a reference into heap, or None
    heap,           \* the RouterConfig objects constructed so far, by reference
    loaded,         \* what the last direct call of ConfigLoader.get_config did
    router_config,  \* ModelRouter._config: a reference into heap, or None
    request,        \* the arguments of the last select_model call
    selection,      \* what _select_model_for_features did for that call
    handle,         \* what select_model returned (or raised) for that call
    probe,          \* the last direct application of _rule_matches
    call,           \* the ModelHandle.chat / ModelHandle.embed call in progress
    pc,             \* position inside _call_with_retry_and_fallback
    attempt,        \* its local variable `attempt`
    last_exc,       \* the message of the exception the last backend call raised
    trace,          \* backend calls and sleeps of the call, in order
    result,         \* how the call ended
    other           \* the request and call of the thread that is not running

vars == <<raw, cache, heap, loaded, router_config, request, selection, handle, probe,
          call, pc, attempt, last_exc, trace, result, other>>

-----------------------------------------------------------------------------
(* Bounds of the model *)

\* context sizes, chunk sizes and range bounds are drawn from 0..MaxTok
MaxTok == 1

\* the longest rules array of the order slice
MaxRules == 2

\* retry_policy.max_attempts is drawn from 0..MaxAttempts
MaxAttempts == 2

\* how many fields a rule condition of the matching slice sets at most
MaxSet == 2

\* how many forced reloads a behaviour holds at most
MaxLoads == 2

-----------------------------------------------------------------------------
(* Optional values and Python truthiness *)

None == <<>>

Some(v) == <<v>>

\* d.get(k): None when the key is missing
Get(d, k) == IF k \in DOMAIN d THEN Some(d[k]) ELSE None

\* d.get(k, default)
GetOr(d, k, default) == IF k \in DOMAIN d THEN d[k] ELSE default

\* bool(x) of an Optional[int]: None and 0 are falsy
TruthyInt(o) == o # None /\ o[1] # 0

\* bool(x) of an Optional[str]: None and "" are falsy
TruthyStr(o) == o # None /\ o[1] # ""

\* bool(x) of an Optional list or dict: None and the empty container are falsy
TruthyColl(o) == o # None /\ o[1] # {}

\* bool(x) of an Optional dict held as a function
TruthyDict(o) == o # None /\ DOMAIN o[1] # {}

Max(a, b) == IF a >= b THEN a ELSE b

-----------------------------------------------------------------------------
(* Configuration loader: src/src/config_loader.py *)

\* RetryPolicy(max_attempts=retry_raw.get("max_attempts", 2), backoff_ms=...get("backoff_ms", 200))
ParseRetry(m) ==
    LET retry_raw == GetOr(m, "retry_policy", <<>>)
    IN  [max_attempts |-> GetOr(retry_raw, "max_attempts", 2),
         backoff_ms   |-> GetOr(retry_raw, "backoff_ms", 200)]

\* the keys the loader subscripts (m["id"], ...): a missing one raises KeyError
ModelRequired == {"id", "provider", "type", "model_id"}

RuleRequired == {"id", "use_model"}

\* ModelConfig(...) of one record of models.json
ParseModel(m) ==
    [id                 |-> m["id"],
     provider           |-> m["provider"],
     type               |-> m["type"],
     model_id           |-> m["model_id"],
     max_context_tokens |-> Get(m, "max_context_tokens"),
     max_chunk_tokens   |-> Get(m, "max_chunk_tokens"),
     default_params     |-> GetOr(m, "default_params", <<>>),
     backup_model_id    |-> Get(m, "backup_model_id"),
     retry_policy       |-> ParseRetry(m)]

\* RuleConditionRange(gte=r.get("gte"), lt=r.get("lt")) if r else None
ParseRange(r) ==
    IF TruthyDict(r)
    THEN Some([gte |-> Get(r[1], "gte"), lt |-> Get(r[1], "lt")])
    ELSE None

\* RuleCondition(...) of a rule's "when"
ParseCondition(cond_raw) ==
    [task_type            |-> Get(cond_raw, "task_type"),
     complexity           |-> Get(cond_raw, "complexity"),
     language             |-> Get(cond_raw, "language"),
     tenant_tiers         |-> Get(cond_raw, "tenant_tier"),
     context_tokens_range |-> ParseRange(Get(cond_raw, "context_tokens")),
     chunk_tokens_range   |-> ParseRange(Get(cond_raw, "chunk_tokens"))]

\* RoutingRule(...) of one record of routing_rules.json
ParseRule(r) ==
    [id              |-> r["id"],
     when            |-> ParseCondition(GetOr(r, "when", <<>>)),
     use_model       |-> r["use_model"],
     override_params |-> GetOr(r, "override_params", <<>>)]

\* the loop "for m in models: models_dict[cfg.id] = cfg": a later record of the
\* same id replaces the earlier one
RECURSIVE ParseModels(_, _)
ParseModels(ms, acc) ==
    IF ms = <<>> THEN acc
    ELSE LET cfg == ParseModel(Head(ms))
         IN  ParseModels(Tail(ms),
                 [k \in DOMAIN acc \cup {cfg.id} |->
                     IF k = cfg.id THEN cfg ELSE acc[k]])

\* the loop "for r in rules: rules.append(rule)"
RECURSIVE ParseRules(_, _)
ParseRules(rs, acc) ==
    IF rs = <<>> THEN acc
    ELSE ParseRules(Tail(rs), Append(acc, ParseRule(Head(rs))))

\* the parse of get_config: the RouterConfig, or the KeyError of the first
\* record that lacks a subscripted key
Load(data) ==
    IF \/ \E i \in 1..Len(data.models) : ~(ModelRequired \subseteq DOMAIN data.models[i])
       \/ \E i \in 1..Len(data.rules) : ~(RuleRequired \subseteq DOMAIN data.rules[i])
    THEN [status |-> "raise", exc |-> "KeyError", config |-> None]
    ELSE [status |-> "ok", exc |-> "",
          config |-> Some(
            [models |-> ParseModels(data.models, <<>>),
             rules  |-> ParseRules(data.rules, <<>>),
             default_chat_model_id      |-> Get(data.defaults, "chat"),
             default_embedding_model_id |-> Get(data.defaults, "embedding")])]

\* a mutated publication that overwrites the cached object in place
PublishInPlace(the_cache, the_heap, cfg) ==
    IF the_cache = None
    THEN [cache |-> Some(Len(the_heap) + 1), heap |-> Append(the_heap, cfg)]
    ELSE [cache |-> the_cache, heap |-> [the_heap EXCEPT ![the_cache[1]] = cfg]]

\* lines 127-133: cfg = RouterConfig(...) constructs a new object and
\* self._cache = cfg makes the cache refer to it
Publish(the_cache, the_heap, cfg) ==
    [cache |-> Some(Len(the_heap) + 1), heap |-> Append(the_heap, cfg)]

\* a mutated get_config that drops the cache before it reads the files
get_config_clearing(the_cache, the_heap, data, force_reload) ==
    IF the_cache # None /\ ~force_reload
    THEN [status |-> "ok", exc |-> "", config |-> the_cache,
          cache |-> the_cache, heap |-> the_heap]
    ELSE LET p == Load(data)
         IN  IF p.status # "ok"
             THEN [status |-> p.status, exc |-> p.exc, config |-> None,
                   cache |-> None, heap |-> the_heap]
             ELSE LET pub == Publish(the_cache, the_heap, p.config[1])
                  IN  [status |-> "ok", exc |-> "", config |-> pub.cache,
                       cache |-> pub.cache, heap |-> pub.heap]

\* get_config(force_reload): the cached table unless a reload is forced or
\* nothing is cached; a parse that raises leaves the loader as it was, one
\* that succeeds publishes the table it built and returns it
get_config(the_cache, the_heap, data, force_reload) ==
    IF the_cache # None /\ ~force_reload
    THEN [status |-> "ok", exc |-> "", config |-> the_cache,
          cache |-> the_cache, heap |-> the_heap]
    ELSE LET p == Load(data)
         IN  IF p.status # "ok"
             THEN [status |-> p.status, exc |-> p.exc, config |-> None,
                   cache |-> the_cache, heap |-> the_heap]
             ELSE LET pub == Publish(the_cache, the_heap, p.config[1])
                  IN  [status |-> "ok", exc |-> "", config |-> pub.cache,
                       cache |-> pub.cache, heap |-> pub.heap]

-----------------------------------------------------------------------------
(* Feature extractor: src/src/utils/text_analysis.py *)

\* max(1, len(text) // 4)
estimate_tokens(text) == Max(1, text.len \div 4)

classify_size(token_count) ==
    IF token_count < 256 THEN "small"
    ELSE IF token_count < 2048 THEN "medium"
    ELSE "large"

\* ascii_chars / max(1, len(text)) > 0.8
detect_language(text) ==
    IF 10 * text.ascii > 8 * Max(1, text.len) THEN "en" ELSE "multi"

estimate_complexity(text) ==
    IF text.trigger THEN "high"
    ELSE IF text.len > 1000 THEN "high"
    ELSE IF text.len > 300 THEN "medium"
    ELSE "low"

\* task.context_tokens or 0
build_feature_summary(task) ==
    [task_type      |-> task.task_type,
     token_count    |-> estimate_tokens(task.text),
     size_class     |-> classify_size(estimate_tokens(task.text)),
     language       |-> detect_language(task.text),
     complexity     |-> estimate_complexity(task.text),
     context_tokens |-> IF TruthyInt(task.context_tokens)
                        THEN task.context_tokens[1] ELSE 0,
     tenant_tier    |-> task.tenant_tier]

-----------------------------------------------------------------------------
(* Selector: src/src/router.py, _rule_matches .. _ensure_context_limit *)

\* one range test of _rule_matches: True when the rule is to be rejected
RangeRejects(range, value) ==
    /\ range # None
    /\ \/ range[1].gte # None /\ value < range[1].gte[1]
       \/ range[1].lt # None /\ value >= range[1].lt[1]

rule_matches(rule, features) ==
    LET cond == rule.when
    IN  IF TruthyStr(cond.task_type) /\ cond.task_type[1] # features.task_type
          THEN FALSE
        ELSE IF TruthyStr(cond.complexity) /\ cond.complexity[1] # features.complexity
          THEN FALSE
        ELSE IF TruthyStr(cond.language) /\ cond.language[1] # features.language
          THEN FALSE
        ELSE IF TruthyColl(cond.tenant_tiers)
                /\ features.tenant_tier \notin cond.tenant_tiers[1]
          THEN FALSE
        ELSE IF RangeRejects(cond.context_tokens_range, features.context_tokens)
          THEN FALSE
        ELSE IF RangeRejects(cond.chunk_tokens_range, features.token_count)
          THEN FALSE
        ELSE TRUE

\* a mutated check that enforces both limits whatever the task kind
ensure_context_limit_both(model_cfg, features) ==
    IF /\ TruthyInt(model_cfg.max_context_tokens)
       /\ features.context_tokens > model_cfg.max_context_tokens[1]
      THEN "context"
    ELSE IF /\ TruthyInt(model_cfg.max_chunk_tokens)
            /\ features.token_count > model_cfg.max_chunk_tokens[1]
      THEN "chunk"
    ELSE ""

\* which check of _ensure_context_limit raises: "context", "chunk" or "" (none)
ensure_context_limit(model_cfg, features) ==
    IF /\ features.task_type = "chat"
       /\ TruthyInt(model_cfg.max_context_tokens)
       /\ features.context_tokens > model_cfg.max_context_tokens[1]
      THEN "context"
    ELSE IF /\ features.task_type = "embedding"
            /\ TruthyInt(model_cfg.max_chunk_tokens)
            /\ features.token_count > model_cfg.max_chunk_tokens[1]
      THEN "chunk"
    ELSE ""

\* a mutated merge: the target's default wins on a key collision
MergeParamsDefaultsWin(defaults, overrides) ==
    [k \in DOMAIN defaults \cup DOMAIN overrides |->
        IF k \in DOMAIN defaults THEN defaults[k] ELSE overrides[k]]

\* params = dict(defaults); params.update(overrides)
MergeParams(defaults, overrides) ==
    [k \in DOMAIN defaults \cup DOMAIN overrides |->
        IF k \in DOMAIN overrides THEN overrides[k] ELSE defaults[k]]

\* the loop "for rule in self._config.rules: if self._rule_matches(...)":
\* the index of the rule whose body is entered, 0 when the loop ends
RECURSIVE ScanRules(_, _, _)
ScanRules(rules, features, i) ==
    IF i > Len(rules) THEN 0
    ELSE IF rule_matches(rules[i], features) THEN i
    ELSE ScanRules(rules, features, i + 1)

\* a mutated loop that keeps the last matching rule
RECURSIVE ScanRulesLast(_, _, _)
ScanRulesLast(rules, features, i) ==
    IF i < 1 THEN 0
    ELSE IF rule_matches(rules[i], features) THEN i
    ELSE ScanRulesLast(rules, features, i - 1)

LastMatch(rules, features) == ScanRulesLast(rules, features, Len(rules))

FirstMatch(rules, features) == ScanRules(rules, features, 1)

\* a mutated default lookup: the two task kinds' defaults swapped
DefaultIdSwapped(config, features) ==
    IF features.task_type = "chat"
    THEN config.default_embedding_model_id
    ELSE config.default_chat_model_id

\* lines 74-77: the default target id of the request's task kind
DefaultId(config, features) ==
    IF features.task_type = "chat"
    THEN config.default_chat_model_id
    ELSE config.default_embedding_model_id

\* what the selector can do: return a ModelSelection or raise.  `rule` is the
\* index of the rule whose body ran (0 on the default path) and `at` the raise
\* site; neither is a field of the code's objects.
Selected(model_cfg, params, i) ==
    [status |-> "ok", exc |-> "", at |-> "", rule |-> i,
     model_config |-> Some(model_cfg), params |-> params]

Raised(exc, at, i) ==
    [status |-> "raise", exc |-> exc, at |-> at, rule |-> i,
     model_config |-> None, params |-> <<>>]

NoSelection ==
    [status |-> "", exc |-> "", at |-> "", rule |-> 0,
     model_config |-> None, params |-> <<>>]

select_model_for_features(config, features) ==
    LET i == FirstMatch(config.rules, features)
    IN  IF i # 0
        THEN LET rule == config.rules[i]
             IN  IF rule.use_model \notin DOMAIN config.models
                 THEN Raised("KeyError", "lookup", i)
                 ELSE LET model_cfg == config.models[rule.use_model]
                          params == MergeParams(model_cfg.default_params,
                                                rule.override_params)
                          limit == ensure_context_limit(model_cfg, features)
                      IN  IF limit # ""
                          THEN Raised("ValueError", limit, i)
                          ELSE Selected(model_cfg, params, i)
        ELSE LET default_id == DefaultId(config, features)
             IN  IF ~TruthyStr(default_id)
                 THEN Raised("RuntimeError", "no_default", 0)
                 ELSE IF default_id[1] \notin DOMAIN config.models
                 THEN Raised("KeyError", "lookup", 0)
                 ELSE LET model_cfg == config.models[default_id[1]]
                          limit == ensure_context_limit(model_cfg, features)
                      IN  IF limit # ""
                          THEN Raised("ValueError", limit, 0)
                          ELSE Selected(model_cfg, model_cfg.default_params, 0)

-----------------------------------------------------------------------------
(* Dispatcher: src/src/router.py, _create_provider_client *)

Providers == {"bedrock", "anthropic", "gemini"}

\* the provider client, or the ValueError of an unknown provider
create_provider_client(model_cfg, params) ==
    IF model_cfg.provider \in Providers
    THEN [status |-> "ok", exc |-> "", at |-> "",
          client |-> Some([provider |-> model_cfg.provider,
                           model_id |-> model_cfg.model_id,
                           params   |-> params])]
    ELSE [status |-> "raise", exc |-> "ValueError", at |-> "provider",
          client |-> None]

\* select_model after the selector: ModelHandle(selection, provider_client, self)
MakeHandle(sel) ==
    IF sel.status # "ok"
    THEN [status |-> "raise", exc |-> sel.exc, at |-> sel.at,
          selection |-> None, provider_client |-> None]
    ELSE LET c == create_provider_client(sel.model_config[1], sel.params)
         IN  IF c.status # "ok"
             THEN [status |-> "raise", exc |-> c.exc, at |-> c.at,
                   selection |-> None, provider_client |-> None]
             ELSE [status |-> "ok", exc |-> "", at |-> "",
                   selection |-> Some([model_config |-> sel.model_config[1],
                                       params |-> sel.params]),
                   provider_client |-> c.client]

NoHandle ==
    [status |-> "", exc |-> "", at |-> "",
     selection |-> None, provider_client |-> None]

-----------------------------------------------------------------------------
(* Resilient invoker: src/src/router.py, _is_throttling_error *)

UpperLetters ==
    <<"A","B","C","D","E","F","G","H","I","J","K","L","M",
      "N","O","P","Q","R","S","T","U","V","W","X","Y","Z">>

LowerLetters ==
    <<"a","b","c","d","e","f","g","h","i","j","k","l","m",
      "n","o","p","q","r","s","t","u","v","w","x","y","z">>

LowerChar(c) ==
    IF \E i \in 1..Len(UpperLetters) : UpperLetters[i] = c
    THEN LowerLetters[CHOOSE i \in 1..Len(UpperLetters) : UpperLetters[i] = c]
    ELSE c

\* str.lower()
Lower(msg) == [i \in 1..Len(msg) |-> LowerChar(msg[i])]

\* k in msg
Contains(msg, k) ==
    \E s \in 0..(Len(msg) - Len(k)) :
        \A j \in 1..Len(k) : msg[s + j] = k[j]

throttling_keywords ==
    { <<"t","h","r","o","t","t","l","i","n","g">>,
      <<"r","a","t","e"," ","l","i","m","i","t">>,
      <<"t","o","o"," ","m","a","n","y"," ","r","e","q","u","e","s","t","s">>,
      <<"t","o","k","e","n","s"," ","p","e","r"," ","m","i","n","u","t","e">> }

\* a mutated classifier that takes every failure for throttling
is_throttling_error_always(msg) == Len(msg) >= 0

is_throttling_error(msg) ==
    \E k \in throttling_keywords : Contains(Lower(msg), k)

-----------------------------------------------------------------------------
(* The environment: requests and configuration files *)

Sizes == 0..MaxTok

\* texts of 4, 8, ... characters: all ASCII, all ASCII with a trigger phrase,
\* or without any ASCII character
Texts ==
    { [len |-> 4 * k, ascii |-> 4 * k * x[1], trigger |-> x[2]] :
        k \in 1..(MaxTok + 1),
        x \in { <<1, FALSE>>, <<1, TRUE>>, <<0, FALSE>> } }

OptSizes == {None} \cup { Some(n) : n \in 0..(MaxTok + 1) }

\* the arguments of select_model (tenant_id and metadata are not read)
Tasks ==
    [text : Texts, task_type : {"chat", "embedding"},
     context_tokens : OptSizes, tenant_tier : {"standard", "premium"}]

\* a record of models.json with the keys every slice sets
RawModel(id, provider, type) ==
    [id |-> id, provider |-> provider, type |-> type, model_id |-> id]

RawRule(id, when, use_model) ==
    [id |-> id, when |-> when, use_model |-> use_model]

Strong ==
    RawModel("model-strong", "bedrock", "chat")
      @@ ("max_context_tokens" :> MaxTok)
      @@ ("default_params" :> [temperature |-> 1, max_tokens |-> 1])

Default ==
    RawModel("model-default", "anthropic", "chat")
      @@ ("default_params" :> [temperature |-> 2])

Embed ==
    RawModel("model-embed", "gemini", "embedding")
      @@ ("max_chunk_tokens" :> MaxTok)

Legacy == RawModel("model-legacy", "openai", "chat")

BaseModels == <<Strong, Default, Embed, Legacy>>

BaseDefaults == [chat |-> "model-default", embedding |-> "model-embed"]

\* rules of the order slice; several can match one request
RuleSamples ==
    { RawRule("r-all", <<>>, "model-default"),
      RawRule("r-strong", [complexity |-> "high", tenant_tier |-> {"premium"}],
              "model-strong"),
      RawRule("r-chat", [task_type |-> "chat"], "model-strong")
        @@ ("override_params" :> [temperature |-> 3, top_p |-> 3]),
      RawRule("r-ctx", [context_tokens |-> [gte |-> 1]], "model-default")
        @@ ("override_params" :> [max_tokens |-> 2]),
      RawRule("r-chunk", [task_type |-> "embedding", chunk_tokens |-> [lt |-> 2]],
              "model-embed"),
      RawRule("r-multi", [language |-> "multi"], "model-ghost"),
      RawRule("r-legacy", [complexity |-> "low", tenant_tier |-> {"standard"}],
              "model-legacy") }

RECURSIVE SeqsUpTo(_, _)
SeqsUpTo(S, n) ==
    IF n = 0 THEN { <<>> }
    ELSE LET shorter == SeqsUpTo(S, n - 1)
         IN  shorter \cup { Append(q, x) : q \in shorter, x \in S }

\* order slice: every rules array of at most MaxRules sample rules
OrderConfigs ==
    { [models |-> BaseModels, rules |-> t, defaults |-> BaseDefaults] :
        t \in SeqsUpTo(RuleSamples, MaxRules) }

\* capacity slice: one target of either kind, its two limits absent or
\* declared in Sizes, reached by a catch-all rule or as the default
CapacityTargets ==
    { RawModel("model-strong", "bedrock", type) @@ limits :
        type \in {"chat", "embedding"},
        limits \in { c @@ k :
            c \in {<<>>} \cup { [max_context_tokens |-> n] : n \in Sizes },
            k \in {<<>>} \cup { [max_chunk_tokens |-> n] : n \in Sizes } } }

CapacityConfigs ==
    { [models |-> <<m>>, rules |-> t,
       defaults |-> [chat |-> "model-strong", embedding |-> "model-strong"]] :
        m \in CapacityTargets,
        t \in { <<>>, <<RawRule("r-all", <<>>, "model-strong")>> } }

\* default slice: each task kind's default absent, empty, naming a target or
\* naming none
DefaultConfigs ==
    { [models |-> BaseModels, rules |-> t, defaults |-> c @@ e] :
        t \in { <<>>,
                <<RawRule("r-strong", [complexity |-> "high"], "model-strong")>> },
        c \in {<<>>} \cup { [chat |-> d] :
                d \in {"", "model-strong", "model-default", "model-embed", "model-ghost"} },
        e \in {<<>>} \cup { [embedding |-> d] :
                d \in {"model-embed", "model-strong", "model-ghost"} } }

\* parameter slice: the target's defaults and the rule's overrides range over
\* the maps of two keys
ParamKeys == {"temperature", "max_tokens"}

ParamMaps ==
    UNION { [K -> {1, 2}] : K \in SUBSET ParamKeys }

ParamConfigs ==
    { [models |-> <<RawModel("model-strong", "bedrock", "chat")
                      @@ ("default_params" :> d)>>,
       rules |-> t,
       defaults |-> [chat |-> "model-strong", embedding |-> "model-strong"]] :
        d \in ParamMaps,
        t \in {<<>>} \cup
              { <<RawRule("r-chat", [task_type |-> "chat"], "model-strong")
                    @@ ("override_params" :> o)>> : o \in ParamMaps } }

SelectConfigs == OrderConfigs \cup CapacityConfigs \cup DefaultConfigs \cup ParamConfigs

-----------------------------------------------------------------------------
(* Operations of the router *)

NoCall == [op |-> "", backup |-> None, backup_client |-> None]

NoResult == [status |-> "", exc |-> "", at |-> "", by |-> "", msg |-> None]

NoProbe == [applied |-> FALSE, features |-> None, matched |-> FALSE]

NoLoad == [applied |-> FALSE, force_reload |-> FALSE, status |-> "", exc |-> "",
           config |-> None]

\* the frame of a thread: the arguments, locals and outcome of its
\* select_model call and of its ModelHandle.chat / ModelHandle.embed call
Frame(req, sel, hdl, cl, at_pc, n, exc, tr, res) ==
    [request |-> req, selection |-> sel, handle |-> hdl, call |-> cl, pc |-> at_pc,
     attempt |-> n, last_exc |-> exc, trace |-> tr, result |-> res]

NoOther ==
    Frame(None, NoSelection, NoHandle, NoCall, "idle", 0, None, <<>>, NoResult)

\* the RouterConfig object self._config refers to
Config == heap[router_config[1]]

Idle ==
    /\ cache = None
    /\ heap = <<>>
    /\ loaded = NoLoad
    /\ router_config = None
    /\ request = None
    /\ selection = NoSelection
    /\ handle = NoHandle
    /\ probe = NoProbe
    /\ call = NoCall
    /\ pc = "idle"
    /\ attempt = 0
    /\ last_exc = None
    /\ trace = <<>>
    /\ result = NoResult
    /\ other = NoOther

\* ModelRouter.__init__: self._config = self._config_loader.get_config()
RouterInit ==
    /\ router_config = None
    /\ LET r == get_config(cache, heap, raw, FALSE)
       IN  /\ cache' = r.cache
           /\ heap' = r.heap
           /\ router_config' = r.config
    /\ UNCHANGED <<raw, loaded, request, selection, handle, probe,
                   call, pc, attempt, last_exc, trace, result, other>>

\* ConfigLoader.get_config(force_reload) called on the loader itself
GetConfig(force_reload) ==
    /\ force_reload => Len(heap) < MaxLoads
    /\ LET r == get_config(cache, heap, raw, force_reload)
       IN  /\ cache' = r.cache
           /\ heap' = r.heap
           /\ loaded' = [applied |-> TRUE, force_reload |-> force_reload,
                         status |-> r.status, exc |-> r.exc, config |-> r.config]
    /\ UNCHANGED <<raw, router_config, request, selection, handle, probe,
                   call, pc, attempt, last_exc, trace, result, other>>

\* models.json and routing_rules.json are rewritten between two reads of the loader
EditConfig(data) ==
    /\ data # raw
    /\ raw' = data
    /\ UNCHANGED <<cache, heap, loaded, router_config, request, selection, handle,
                   probe, call, pc, attempt, last_exc, trace, result, other>>

\* ModelRouter.select_model(text, task_type, context_tokens, tenant_tier).
\* A behaviour follows one request from its selection to the end of its call.
SelectModel(task) ==
    /\ router_config # None
    /\ request = None
    /\ LET features == build_feature_summary(task)
           sel == select_model_for_features(Config, features)
       IN  /\ request' = Some(task)
           /\ selection' = sel
           /\ handle' = MakeHandle(sel)
    /\ UNCHANGED <<raw, cache, heap, loaded, router_config, probe,
                   call, pc, attempt, last_exc, trace, result, other>>

Init ==
    /\ raw \in SelectConfigs
    /\ Idle

Next ==
    \/ RouterInit
    \/ \E task \in Tasks : SelectModel(task)

Spec == Init /\ [][Next]_vars

-----------------------------------------------------------------------------
(* Properties of the selector, checked under Spec *)

\* the feature summary of the request
Feat == build_feature_summary(request[1])

\* the indices of the loaded rules that match the request
Matching ==
    { i \in 1..Len(Config.rules) :
        rule_matches(Config.rules[i], Feat) }

\* the smallest index of Matching
Least(S) == CHOOSE i \in S : \A j \in S : i <= j

\* the record of models.json that the loaded table holds under an id
RawModelOf(id) ==
    raw.models[CHOOSE i \in 1..Len(raw.models) :
        /\ raw.models[i].id = id
        /\ \A j \in (i + 1)..Len(raw.models) : raw.models[j].id # id]

RawIds == { raw.models[i].id : i \in 1..Len(raw.models) }

\* the default target id the configuration files give the request's task kind
RawDefault ==
    IF request[1].task_type = "chat"
    THEN Get(raw.defaults, "chat")
    ELSE Get(raw.defaults, "embedding")

\* the id of the target the selector went to: the winning rule's, else the default
RoutedId ==
    IF selection.rule # 0 THEN raw.rules[selection.rule].use_model ELSE RawDefault[1]

\* the selector resolved a target and ran the capacity check on it
Examined ==
    /\ request # None
    /\ selection.at \notin {"no_default", "lookup"}

\* C1: when at least one rule matches, the rule whose body runs is the
\* matching rule of the smallest table index, a returned selection holds that
\* rule's target (and one is returned unless the lookup of that target or its
\* capacity check raises), and the rules the selector scans are the rules
\* array of the configuration file in its order.
C1_FirstMatchWins ==
    /\ router_config # None =>
         /\ Len(Config.rules) = Len(raw.rules)
         /\ \A i \in 1..Len(raw.rules) :
              /\ Config.rules[i].id = raw.rules[i].id
              /\ Config.rules[i].use_model = raw.rules[i].use_model
    /\ (request # None /\ Matching # {}) =>
         LET w == Least(Matching)
             target == raw.rules[w].use_model
         IN  /\ selection.rule = w
             /\ selection.status = "ok" =>
                  selection.model_config[1].id = target
             /\ ( /\ target \in RawIds
                  /\ ensure_context_limit(Config.models[target], Feat) = "" )
                  => selection.status = "ok"

\* C1 witness: two rules with different targets match and the earlier one's
\* target is returned
C1_Witness ==
    /\ request # None
    /\ selection.status = "ok"
    /\ \E i, j \in Matching :
         /\ i < j
         /\ raw.rules[i].use_model # raw.rules[j].use_model
         /\ raw.rules[j].use_model \in RawIds
         /\ selection.model_config[1].id = raw.rules[i].use_model

\* rules whose condition sets no field, with any target and overrides
WildcardRules ==
    { [id |-> "r-appended",
       when |-> ParseCondition(<<>>),
       use_model |-> m,
       override_params |-> o] :
        m \in RawIds \cup {"model-ghost"},
        o \in { <<>>, [temperature |-> 9] } }

\* C3: when some rule of the table matches the request, the selector's outcome
\* (winning rule, target, merged parameters) on the table with an all-wildcard
\* rule appended is the outcome on the table itself.
C3_AppendWildcard ==
    (request # None /\ Matching # {}) =>
        \A wild \in WildcardRules :
            select_model_for_features(
                [Config EXCEPT !.rules = Append(@, wild)], Feat)
              = selection

\* C3 witness: a selection made by a rule of a table that holds no catch-all,
\* for a target other than the appended rule's
C3_Witness ==
    /\ request # None
    /\ Matching # {}
    /\ selection.status = "ok"
    /\ \A i \in 1..Len(raw.rules) : GetOr(raw.rules[i], "when", <<>>) # <<>>
    /\ \E wild \in WildcardRules :
         /\ wild.use_model \in RawIds
         /\ wild.use_model # selection.model_config[1].id

\* C4: when no rule matches, the selector goes to the default target of the
\* request's task kind: with none configured it raises the no-default error
\* and returns no selection; otherwise it returns that target with no rule
\* (unless the lookup of that target or its capacity check raises).
C4_DefaultTarget ==
    (request # None /\ Matching = {}) =>
        IF ~TruthyStr(RawDefault)
        THEN selection = Raised("RuntimeError", "no_default", 0)
        ELSE /\ selection.rule = 0
             /\ selection.at # "no_default"
             /\ selection.status = "ok" =>
                  selection.model_config[1].id = RawDefault[1]
             /\ selection.at = "lookup" <=> RawDefault[1] \notin RawIds
             /\ ( /\ RawDefault[1] \in RawIds
                  /\ ensure_context_limit(Config.models[RawDefault[1]], Feat) = "" )
                  => selection.status = "ok"

\* C4 witness: rules exist, none matches, and the task kind's default target
\* is returned while the other task kind has a different default
C4_Witness ==
    /\ request # None
    /\ Len(raw.rules) > 0
    /\ Matching = {}
    /\ selection.status = "ok"
    /\ selection.model_config[1].id = RawDefault[1]
    /\ Get(raw.defaults, "chat") # Get(raw.defaults, "embedding")

\* C5: a selection made by a rule carries the target's default parameters
\* overlaid with the rule's overrides (every key of either, the override's
\* value on a collision); one made on the default path carries exactly the
\* target's defaults; and the loaded table still holds the default_params and
\* override_params of the configuration files.
C5_MergedParams ==
    /\ (request # None /\ selection.status = "ok") =>
         LET D == GetOr(RawModelOf(RoutedId), "default_params", <<>>)
             O == GetOr(raw.rules[selection.rule], "override_params", <<>>)
             P == selection.params
         IN  IF selection.rule # 0
             THEN /\ DOMAIN P = DOMAIN D \cup DOMAIN O
                  /\ \A k \in DOMAIN O : P[k] = O[k]
                  /\ \A k \in DOMAIN D \ DOMAIN O : P[k] = D[k]
             ELSE P = D
    /\ router_config # None =>
         /\ \A id \in RawIds :
              Config.models[id].default_params
                = GetOr(RawModelOf(id), "default_params", <<>>)
         /\ \A i \in 1..Len(raw.rules) :
              Config.rules[i].override_params
                = GetOr(raw.rules[i], "override_params", <<>>)

\* C5 witness: a rule's selection whose maps collide on a key with different
\* values and each hold a key the other lacks
C5_Witness ==
    /\ request # None
    /\ selection.status = "ok"
    /\ selection.rule # 0
    /\ LET D == GetOr(RawModelOf(RoutedId), "default_params", <<>>)
           O == GetOr(raw.rules[selection.rule], "override_params", <<>>)
       IN  /\ \E k \in DOMAIN D \cap DOMAIN O : D[k] # O[k]
           /\ DOMAIN D \ DOMAIN O # {}
           /\ DOMAIN O \ DOMAIN D # {}

\* C6: a chat request routed to a target that declares a max context size M
\* is accepted when its context token count is M and rejected with the
\* capacity error when it is M + 1, for every M >= 0.
C6_ContextBoundary ==
    ( /\ Examined
      /\ request[1].task_type = "chat"
      /\ "max_context_tokens" \in DOMAIN RawModelOf(RoutedId) ) =>
        LET M == RawModelOf(RoutedId).max_context_tokens
        IN  /\ Feat.context_tokens = M => selection.status = "ok"
            /\ Feat.context_tokens = M + 1 =>
                 selection.status = "raise" /\ selection.at = "context"

\* C7: a capacity rejection of a chat request is a violation of the target's
\* declared max context size by the context tokens, and the target's max
\* chunk size has no effect on it; a capacity rejection of an embedding
\* request is a violation of the declared max chunk size by the estimated
\* token count, and the max context size has no effect on it; a target that
\* declares neither limit is never the cause of a capacity rejection.
C7_LimitByTaskKind ==
    Examined =>
        LET T == RawModelOf(RoutedId)
            cfg == Config.models[RoutedId]
            kind == request[1].task_type
        IN  /\ selection.at = "context" =>
                 /\ kind = "chat"
                 /\ "max_context_tokens" \in DOMAIN T
                 /\ Feat.context_tokens > T.max_context_tokens
            /\ selection.at = "chunk" =>
                 /\ kind = "embedding"
                 /\ "max_chunk_tokens" \in DOMAIN T
                 /\ Feat.token_count > T.max_chunk_tokens
            /\ Feat.token_count = Max(1, request[1].text.len \div 4)
            /\ kind = "chat" =>
                 \A x \in OptSizes :
                     ensure_context_limit([cfg EXCEPT !.max_chunk_tokens = x], Feat)
                       = selection.at
            /\ kind = "embedding" =>
                 \A x \in OptSizes :
                     ensure_context_limit([cfg EXCEPT !.max_context_tokens = x], Feat)
                       = selection.at
            /\ ({"max_context_tokens", "max_chunk_tokens"} \cap DOMAIN T = {}) =>
                 selection.status = "ok"

\* C7 witness: a chat request whose token count is over the target's declared
\* max chunk size and whose context tokens are within the declared max
\* context size is accepted
C7_Witness ==
    /\ Examined
    /\ request[1].task_type = "chat"
    /\ {"max_context_tokens", "max_chunk_tokens"} \subseteq DOMAIN RawModelOf(RoutedId)
    /\ Feat.token_count > RawModelOf(RoutedId).max_chunk_tokens
    /\ RawModelOf(RoutedId).max_chunk_tokens > 0
    /\ Feat.context_tokens > 0
    /\ selection.status = "ok"

\* the loaded target the selector resolved (when it resolved one)
RoutedResolves == RoutedId \in RawIds

\* C17: select_model returns a handle or fails with one of three errors: the
\* no-default error, the capacity error, or the unsupported-provider error,
\* the last exactly when the chosen target's provider is none of the
\* recognised ones; this for every configuration the loader accepts, also one
\* whose rule target or default id names no record of models.json.
C17_NamedErrorsOnly ==
    request # None =>
        /\ \/ handle.status = "ok"
           \/ /\ handle.status = "raise"
              /\ handle.at \in {"no_default", "context", "chunk", "provider"}
        /\ handle.at = "provider" <=>
              /\ selection.status = "ok"
              /\ RawModelOf(selection.model_config[1].id).provider \notin Providers

\* What the code does instead: the same, with a KeyError when the id the
\* selector resolves names no loaded target.
NamedErrorsOrKeyError ==
    request # None =>
        /\ \/ handle.status = "ok"
           \/ /\ handle.status = "raise"
              /\ handle.at \in {"no_default", "context", "chunk", "provider", "lookup"}
        /\ handle.at = "lookup" <=>
              /\ handle.exc = "KeyError"
              /\ selection.rule # 0 \/ TruthyStr(RawDefault)
              /\ ~RoutedResolves
        /\ handle.at = "provider" <=>
              /\ selection.status = "ok"
              /\ RawModelOf(selection.model_config[1].id).provider \notin Providers

\* the rule the selector committed to is the first matching rule, and it is
\* the default path only when no rule matches
FirstMatchOrDefault ==
    selection.rule = (IF Matching = {} THEN 0 ELSE Least(Matching))

\* the limit that the routed target's record declares for the request's task
\* kind, None when it declares none
DeclaredLimit ==
    IF request[1].task_type = "chat"
    THEN Get(RawModelOf(RoutedId), "max_context_tokens")
    ELSE Get(RawModelOf(RoutedId), "max_chunk_tokens")

\* the size of the request that the limit of its task kind bounds
Demand ==
    IF request[1].task_type = "chat" THEN Feat.context_tokens ELSE Feat.token_count

OverDeclaredLimit == DeclaredLimit # None /\ Demand > DeclaredLimit[1]

\* the selector failed with the capacity error of the request's task kind and
\* committed to no target: no selection, no handle, no provider client
CapacityFailure ==
    /\ selection = Raised("ValueError",
                          IF request[1].task_type = "chat" THEN "context" ELSE "chunk",
                          selection.rule)
    /\ handle.status = "raise"
    /\ handle.at = selection.at
    /\ handle.selection = None
    /\ handle.provider_client = None

\* the selector returned the routed target itself
RoutedSelected ==
    /\ selection.status = "ok"
    /\ selection.model_config[1].id = RoutedId

\* C22: the capacity check runs on the target of the first matching rule, or
\* on the default target when no rule matches; a request over that target's
\* declared limit fails with the capacity error and no target is selected, be
\* there a later matching rule, a default or a backup that would fit; and a
\* selection is returned only for the request's own context tokens and token
\* count within the limit.
C22_CapacityViolationFinal ==
    Examined =>
        /\ FirstMatchOrDefault
        /\ OverDeclaredLimit => CapacityFailure
        /\ ~OverDeclaredLimit => RoutedSelected

\* What the code does: the same for every declared limit other than 0.
CapacityViolationFinalAboveZero ==
    (Examined /\ DeclaredLimit # Some(0)) =>
        /\ FirstMatchOrDefault
        /\ OverDeclaredLimit => CapacityFailure
        /\ ~OverDeclaredLimit => RoutedSelected

\* the first matching rule's target is over its limit while a later matching
\* rule names a target that declares no limit: the selector fails
LaterRuleWouldFit ==
    /\ Examined
    /\ OverDeclaredLimit
    /\ DeclaredLimit # Some(0)
    /\ CapacityFailure
    /\ \E j \in Matching :
         /\ j > selection.rule
         /\ raw.rules[j].use_model \in RawIds
         /\ raw.rules[j].use_model # RoutedId
         /\ "max_context_tokens" \notin DOMAIN RawModelOf(raw.rules[j].use_model)

-----------------------------------------------------------------------------
(* Rule matching on its own: one loaded rule applied to feature summaries *)

\* the ranges a rule's "when" can hold: {} and every choice of bounds in Sizes
RawRanges ==
    { g @@ l :
        g \in {<<>>} \cup { [gte |-> n] : n \in Sizes },
        l \in {<<>>} \cup { [lt |-> n] : n \in Sizes } }

\* one key of a rule's "when" with a value
Fragments ==
    { [task_type |-> v] : v \in {"chat", "embedding"} }
      \cup { [complexity |-> "high"], [language |-> "en"] }
      \cup { [tenant_tier |-> v] : v \in { {}, {"premium"} } }
      \cup { [context_tokens |-> r] : r \in RawRanges }
      \cup { [chunk_tokens |-> r] : r \in RawRanges }

\* the conditions that set at most n keys
RECURSIVE ConditionsUpTo(_)
ConditionsUpTo(n) ==
    IF n = 0 THEN { <<>> }
    ELSE LET fewer == ConditionsUpTo(n - 1)
         IN  fewer \cup UNION { { c @@ f :
                                     f \in { g \in Fragments : DOMAIN g \cap DOMAIN c = {} } } :
                                   c \in fewer }

MatchConfigs ==
    { [models |-> BaseModels,
       rules |-> <<RawRule("r-probe", when, "model-default")>>,
       defaults |-> BaseDefaults] :
        when \in ConditionsUpTo(MaxSet) }

\* the FeatureSummary values build_feature_summary yields for short texts
FeatureSummaries ==
    [task_type : {"chat", "embedding"},
     token_count : 1..(MaxTok + 1),
     size_class : {"small"},
     language : {"en", "multi"},
     complexity : {"low", "high"},
     context_tokens : 0..(MaxTok + 1),
     tenant_tier : {"standard", "premium"}]

\* self._rule_matches(rule, features) on the loaded rule
RuleMatches(features) ==
    /\ router_config # None
    /\ ~probe.applied
    /\ probe' = [applied |-> TRUE, features |-> Some(features),
                 matched |-> rule_matches(Config.rules[1], features)]
    /\ UNCHANGED <<raw, cache, heap, loaded, router_config, request, selection, handle,
                   call, pc, attempt, last_exc, trace, result, other>>

InitMatch ==
    /\ raw \in MatchConfigs
    /\ Idle

NextMatch ==
    \/ RouterInit
    \/ \E features \in FeatureSummaries : RuleMatches(features)

SpecMatch == InitMatch /\ [][NextMatch]_vars

\* a range of a "when" agrees with a value: gte is an inclusive lower bound,
\* lt an exclusive upper bound, and an absent bound does not constrain
RangeAgrees(when, key, value) ==
    key \in DOMAIN when =>
        /\ "gte" \in DOMAIN when[key] => value >= when[key].gte
        /\ "lt" \in DOMAIN when[key] => value < when[key].lt

\* C2: the rule matches iff every field its condition sets agrees with the
\* feature summary: task kind, complexity and language equal, tenant tier a
\* member of the tier list, context tokens within the context range and token
\* count within the chunk range; a field the condition does not set is a
\* wildcard.
C2_MatchIffSetFieldsAgree ==
    probe.applied =>
        LET when == raw.rules[1].when
            f == probe.features[1]
        IN  probe.matched <=>
              /\ "task_type" \in DOMAIN when => when.task_type = f.task_type
              /\ "complexity" \in DOMAIN when => when.complexity = f.complexity
              /\ "language" \in DOMAIN when => when.language = f.language
              /\ "tenant_tier" \in DOMAIN when => f.tenant_tier \in when.tenant_tier
              /\ RangeAgrees(when, "context_tokens", f.context_tokens)
              /\ RangeAgrees(when, "chunk_tokens", f.token_count)

\* What the code does instead: the statement above with an empty tier list
\* treated like an absent one.
MatchIffWithEmptyTiersUnset ==
    probe.applied =>
        LET when == raw.rules[1].when
            f == probe.features[1]
        IN  probe.matched <=>
              /\ "task_type" \in DOMAIN when => when.task_type = f.task_type
              /\ "complexity" \in DOMAIN when => when.complexity = f.complexity
              /\ "language" \in DOMAIN when => when.language = f.language
              /\ ("tenant_tier" \in DOMAIN when /\ when.tenant_tier # {})
                   => f.tenant_tier \in when.tenant_tier
              /\ RangeAgrees(when, "context_tokens", f.context_tokens)
              /\ RangeAgrees(when, "chunk_tokens", f.token_count)

-----------------------------------------------------------------------------
(* Call handle and resilient invoker: src/src/models.py, ModelHandle;       *)
(* src/src/router.py, _call_with_retry_and_fallback                         *)

\* messages of the exceptions a backend call raises
Messages ==
    { <<"R","a","t","e"," ","L","i","m","i","t"," ","h","i","t">>,
      <<"T","h","r","o","t","t","l","i","n","g","E","x">>,
      <<"4","2","9"," ","T","o","o"," ","M","a","n","y"," ","R","e","q","u","e","s","t","s">>,
      <<"t","o","k","e","n","s"," ","p","e","r"," ","m","i","n","u","t","e">>,
      <<"t","i","m","e","o","u","t">>,
      <<"r","a","t","e","-","l","i","m","i","t">>,
      <<"T","h","r","o","t","t","l","e","d">> }

\* what a backend call does: None when it returns, else the message it raises
Outcomes == {None} \cup { Some(m) : m \in Messages }

\* a backend call: `ok` tells whether it returned
CallEvent(via, model_cfg, op, params, ok) ==
    [kind |-> "call", via |-> via, target |-> model_cfg.id, op |-> op,
     params |-> params, ms |-> 0, ok |-> ok]

\* a mutated wait that sleeps backoff_ms seconds: the division is left out
SleepEventUnscaled(via, model_cfg, policy) ==
    [kind |-> "sleep", via |-> via, target |-> model_cfg.id, op |-> "",
     params |-> <<>>, ms |-> policy.backoff_ms * 1000, ok |-> FALSE]

\* time.sleep(policy.backoff_ms / 1000.0)
SleepEvent(via, model_cfg, policy) ==
    [kind |-> "sleep", via |-> via, target |-> model_cfg.id, op |-> "",
     params |-> <<>>, ms |-> policy.backoff_ms, ok |-> FALSE]

Returned(via) ==
    [status |-> "ok", exc |-> "", at |-> via, by |-> via, msg |-> None]

\* the exception of a backend call, re-raised to the caller
Propagated(via, m) ==
    [status |-> "raise", exc |-> "Exception", at |-> via, by |-> via, msg |-> Some(m)]

\* an exception the handle or the invoker raises itself; its message is the
\* sequence of the parts of the f-string
Failed(exc, at, msg) ==
    [status |-> "raise", exc |-> exc, at |-> at, by |-> "", msg |-> msg]

\* line 170
NoBackupMessage(model_cfg) ==
    <<"Primary model ", model_cfg.id, " throttled and no backup_model_id configured">>

\* str() of an Optional[str] inside an f-string
IdText(o) == IF o = None THEN "None" ELSE o[1]

\* line 176
BackupNotFoundMessage(model_cfg) ==
    <<"Backup model ", IdText(model_cfg.backup_model_id), " for ", model_cfg.id,
      " not found in config">>

\* line 200
BothThrottledMessage(model_cfg, backup_cfg) ==
    <<"Primary model ", model_cfg.id, " and backup ", backup_cfg.id, " both throttled">>

\* the messages of the TypeError of ModelHandle.chat and ModelHandle.embed
TypeMismatchMessage(op) ==
    IF op = "chat"
    THEN <<"ModelHandle.chat() called on non-chat model">>
    ELSE <<"ModelHandle.embed() called on non-embedding model">>

\* line 141
UnsupportedProviderMessage(model_cfg) ==
    <<"Unsupported provider: ", model_cfg.provider>>

\* a mutated type check that lets every call through
TypeMatchesAlways(model_cfg, op) ==
    op \in {"chat", "embed"} /\ model_cfg.type \in {"chat", "embedding"}

\* the negation of the tests of ModelHandle.chat and ModelHandle.embed
TypeMatches(model_cfg, op) ==
    IF op = "chat" THEN model_cfg.type = "chat" ELSE model_cfg.type = "embedding"

\* a mutated test that takes every primary to have a backup
BackupConfiguredAlways(model_cfg) == Len(model_cfg.backup_model_id) >= 0

\* the negation of "if not model_cfg.backup_model_id"
BackupConfigured(model_cfg) == TruthyStr(model_cfg.backup_model_id)

\* a mutated lookup that falls back to some target of the table
LookupBackupOrAny(models, id) ==
    IF id # None /\ id[1] \in DOMAIN models THEN Some(models[id[1]])
    ELSE Some(models[CHOOSE k \in DOMAIN models : TRUE])

\* self._config.models.get(model_cfg.backup_model_id); the id is an Optional
LookupBackup(models, id) ==
    IF id # None /\ id[1] \in DOMAIN models THEN Some(models[id[1]]) ELSE None

\* a mutated construction in which the backup inherits the primary
\* selection's parameters
BackupParamsInherited(sel, backup_cfg) ==
    MergeParams(backup_cfg.default_params, sel.params)

\* backup_params = dict(backup_cfg.default_params)
BackupParams(sel, backup_cfg) == backup_cfg.default_params

\* a mutated backup loop that runs under the primary's retry policy
BackupPolicyOfPrimary(model_cfg, backup_cfg) == model_cfg.retry_policy

\* the policy the backup loop reads: backup_cfg.retry_policy
BackupPolicy(model_cfg, backup_cfg) == backup_cfg.retry_policy

\* lines 188-191: the operation is chosen by the backup's type
BackupOp(backup_cfg) == IF backup_cfg.type = "chat" THEN "chat" ELSE "embed"

\* a mutated loop exit that allows one attempt more
ExhaustedOffByOne(n, policy) == n > policy.max_attempts

\* "if attempt >= policy.max_attempts: break"
Exhausted(n, policy) == n >= policy.max_attempts

\* ModelHandle.chat (op = "chat") and ModelHandle.embed (op = "embed"): the
\* type check, then the entry of _call_with_retry_and_fallback
HandleCall(op) ==
    /\ handle.status = "ok"
    /\ pc = "idle"
    /\ LET model_cfg == handle.selection[1].model_config
       IN  IF ~TypeMatches(model_cfg, op)
           THEN /\ result' = Failed("TypeError", "type_mismatch",
                                    Some(TypeMismatchMessage(op)))
                /\ pc' = "done"
                /\ UNCHANGED <<call, attempt>>
           ELSE /\ call' = [op |-> op, backup |-> None, backup_client |-> None]
                /\ attempt' = 0
                /\ pc' = "primary"
                /\ UNCHANGED result
    /\ UNCHANGED <<raw, cache, heap, loaded, router_config, request, selection, handle, probe,
                   last_exc, trace, other>>

\* lines 167-184: the backup path after the primary loop breaks with attempt = n
Failover(n) ==
    LET model_cfg == handle.selection[1].model_config
        models == Config.models
    IN  IF ~BackupConfigured(model_cfg)
        THEN /\ result' = Failed("ThrottlingError", "no_backup",
                                 Some(NoBackupMessage(model_cfg)))
             /\ pc' = "done"
             /\ attempt' = n
             /\ UNCHANGED call
        ELSE LET found == LookupBackup(models, model_cfg.backup_model_id)
             IN  IF found = None
                 THEN /\ result' = Failed("ThrottlingError", "backup_not_found",
                                          Some(BackupNotFoundMessage(model_cfg)))
                      /\ pc' = "done"
                      /\ attempt' = n
                      /\ UNCHANGED call
                 ELSE LET backup_cfg == found[1]
                          backup_params == BackupParams(handle.selection[1], backup_cfg)
                          c == create_provider_client(backup_cfg, backup_params)
                      IN  IF c.status # "ok"
                          THEN /\ result' = Failed(c.exc, c.at,
                                      Some(UnsupportedProviderMessage(backup_cfg)))
                               /\ pc' = "done"
                               /\ attempt' = n
                               /\ UNCHANGED call
                          ELSE /\ call' = [call EXCEPT !.backup = Some(backup_cfg),
                                                       !.backup_client = c.client]
                               /\ attempt' = 0
                               /\ pc' = "backup"
                               /\ UNCHANGED result

\* one pass of the primary loop, lines 156-165, up to the sleep
PrimaryAttempt(outcome) ==
    /\ pc = "primary"
    /\ LET model_cfg == handle.selection[1].model_config
           policy == model_cfg.retry_policy
       IN  /\ trace' = Append(trace,
                 CallEvent("primary", model_cfg, call.op,
                           handle.provider_client[1].params, outcome = None))
           /\ IF outcome = None
              THEN /\ result' = Returned("primary")
                   /\ pc' = "done"
                   /\ attempt' = attempt + 1
                   /\ UNCHANGED <<call, last_exc>>
              ELSE /\ last_exc' = outcome
                   /\ IF ~is_throttling_error(outcome[1])
                      THEN /\ result' = Propagated("primary", outcome[1])
                           /\ pc' = "done"
                           /\ attempt' = attempt + 1
                           /\ UNCHANGED call
                      ELSE IF Exhausted(attempt + 1, policy)
                      THEN Failover(attempt + 1)
                      ELSE /\ pc' = "primary_sleep"
                           /\ attempt' = attempt + 1
                           /\ UNCHANGED <<call, result>>
    /\ UNCHANGED <<raw, cache, heap, loaded, router_config, request, selection, handle, probe, other>>

\* a mutated wait that doubles the backoff of the target in the router's table
PrimarySleepEscalating ==
    /\ pc = "primary_sleep"
    /\ LET model_cfg == handle.selection[1].model_config
       IN  /\ trace' = Append(trace, SleepEvent("primary", model_cfg, model_cfg.retry_policy))
           /\ heap' = [heap EXCEPT
                 ![router_config[1]].models[model_cfg.id].retry_policy.backoff_ms = 2 * @]
    /\ pc' = "primary"
    /\ UNCHANGED <<raw, cache, loaded, router_config, request, selection, handle, probe,
                   call, attempt, last_exc, result, other>>

\* time.sleep(policy.backoff_ms / 1000.0) of the primary loop
PrimarySleep ==
    /\ pc = "primary_sleep"
    /\ LET model_cfg == handle.selection[1].model_config
       IN  trace' = Append(trace, SleepEvent("primary", model_cfg, model_cfg.retry_policy))
    /\ pc' = "primary"
    /\ UNCHANGED <<raw, cache, heap, loaded, router_config, request, selection, handle, probe,
                   call, attempt, last_exc, result, other>>

\* a mutated backup loop that, once exhausted, fails over again to the
\* backup's own backup when the table holds it
BackupAttemptChaining(outcome) ==
    /\ pc = "backup"
    /\ LET model_cfg == handle.selection[1].model_config
           backup_cfg == call.backup[1]
           policy == BackupPolicy(model_cfg, backup_cfg)
           next == LookupBackup(Config.models, backup_cfg.backup_model_id)
       IN  /\ trace' = Append(trace,
                 CallEvent("backup", backup_cfg, BackupOp(backup_cfg),
                           call.backup_client[1].params, outcome = None))
           /\ IF outcome = None
              THEN /\ result' = Returned("backup")
                   /\ pc' = "done"
                   /\ attempt' = attempt + 1
                   /\ UNCHANGED <<last_exc, call>>
              ELSE /\ last_exc' = outcome
                   /\ IF ~is_throttling_error(outcome[1])
                      THEN /\ result' = Propagated("backup", outcome[1])
                           /\ pc' = "done"
                           /\ attempt' = attempt + 1
                           /\ UNCHANGED call
                      ELSE IF Exhausted(attempt + 1, policy)
                      THEN IF BackupConfigured(backup_cfg) /\ next # None
                           THEN /\ call' = [call EXCEPT !.backup = next]
                                /\ attempt' = 0
                                /\ UNCHANGED <<pc, result>>
                           ELSE /\ result' = Failed("ThrottlingError", "both_throttled",
                                           Some(BothThrottledMessage(model_cfg, backup_cfg)))
                                /\ pc' = "done"
                                /\ attempt' = attempt + 1
                                /\ UNCHANGED call
                      ELSE /\ pc' = "backup_sleep"
                           /\ attempt' = attempt + 1
                           /\ UNCHANGED <<result, call>>
    /\ UNCHANGED <<raw, cache, heap, loaded, router_config, request, selection, handle, probe, other>>

\* one pass of the backup loop, lines 185-201, up to the sleep
BackupAttempt(outcome) ==
    /\ pc = "backup"
    /\ LET model_cfg == handle.selection[1].model_config
           backup_cfg == call.backup[1]
           policy == BackupPolicy(model_cfg, backup_cfg)
       IN  /\ trace' = Append(trace,
                 CallEvent("backup", backup_cfg, BackupOp(backup_cfg),
                           call.backup_client[1].params, outcome = None))
           /\ attempt' = attempt + 1
           /\ IF outcome = None
              THEN /\ result' = Returned("backup")
                   /\ pc' = "done"
                   /\ UNCHANGED last_exc
              ELSE /\ last_exc' = outcome
                   /\ IF ~is_throttling_error(outcome[1])
                      THEN /\ result' = Propagated("backup", outcome[1])
                           /\ pc' = "done"
                      ELSE IF Exhausted(attempt + 1, policy)
                      THEN /\ result' = Failed("ThrottlingError", "both_throttled",
                                      Some(BothThrottledMessage(model_cfg, backup_cfg)))
                           /\ pc' = "done"
                      ELSE /\ pc' = "backup_sleep"
                           /\ UNCHANGED result
    /\ UNCHANGED <<raw, cache, heap, loaded, router_config, request, selection, handle, probe, call, other>>

\* time.sleep(backup_cfg.retry_policy.backoff_ms / 1000.0)
BackupSleep ==
    /\ pc = "backup_sleep"
    /\ LET model_cfg == handle.selection[1].model_config
           backup_cfg == call.backup[1]
       IN  trace' = Append(trace,
               SleepEvent("backup", backup_cfg, BackupPolicy(model_cfg, backup_cfg)))
    /\ pc' = "backup"
    /\ UNCHANGED <<raw, cache, heap, loaded, router_config, request, selection, handle, probe,
                   call, attempt, last_exc, result, other>>

-----------------------------------------------------------------------------
(* The whole path of a request: load, select, call *)

\* retry policies of the invocation slice: absent, or max_attempts in
\* 0..MaxAttempts with the given backoff
RawRetries(ms) ==
    {<<>>} \cup { [retry_policy |-> [max_attempts |-> n, backoff_ms |-> ms]] :
                    n \in 0..MaxAttempts }

Backup(retry) ==
    RawModel("model-backup", "anthropic", "chat")
      @@ ("default_params" :> [temperature |-> 2, top_k |-> 2])
      @@ ("backup_model_id" :> "model-strong")
      @@ retry

Primary(retry, backup) ==
    RawModel("model-strong", "bedrock", "chat")
      @@ ("default_params" :> [temperature |-> 1, max_tokens |-> 1])
      @@ retry @@ backup

EmbedPrimary ==
    RawModel("model-embed", "gemini", "embedding")
      @@ ("backup_model_id" :> "model-backup")
      @@ ("retry_policy" :> [max_attempts |-> 1])

InvokeRules ==
    << RawRule("r-strong", [complexity |-> "high"], "model-strong")
         @@ ("override_params" :> [temperature |-> 3, top_p |-> 3]) >>

InvokeDefaults == [chat |-> "model-strong", embedding |-> "model-embed"]

\* invocation slice: the primary's retry policy and backup id vary, and with
\* a resolvable chat backup the backup's retry policy varies too
InvokeConfigs ==
    { [models |-> <<Primary(retry, [backup_model_id |-> "model-backup"]),
                    Backup(backup_retry), EmbedPrimary, Legacy>>,
       rules |-> InvokeRules, defaults |-> InvokeDefaults] :
        retry \in RawRetries(100), backup_retry \in RawRetries(300) }
    \cup
    { [models |-> <<Primary(retry, backup), Backup(<<>>), EmbedPrimary, Legacy>>,
       rules |-> InvokeRules, defaults |-> InvokeDefaults] :
        retry \in RawRetries(100),
        backup \in {<<>>} \cup { [backup_model_id |-> b] :
            b \in {"", "model-ghost", "model-strong", "model-embed", "model-legacy"} } }

\* a chat request the rule takes, one the default takes, and an embedding one
InvokeTasks ==
    { [text |-> [len |-> 4, ascii |-> 4, trigger |-> t], task_type |-> k,
       context_tokens |-> None, tenant_tier |-> "standard"] :
        t \in BOOLEAN, k \in {"chat", "embedding"} }

InitInvoke ==
    /\ raw \in InvokeConfigs
    /\ Idle

NextInvoke ==
    \/ RouterInit
    \/ \E task \in InvokeTasks : SelectModel(task)
    \/ \E op \in {"chat", "embed"} : HandleCall(op)
    \/ \E outcome \in Outcomes : PrimaryAttempt(outcome)
    \/ PrimarySleep
    \/ \E outcome \in Outcomes : BackupAttempt(outcome)
    \/ BackupSleep

SpecInvoke == InitInvoke /\ [][NextInvoke]_vars

-----------------------------------------------------------------------------
(* Properties of the invoker, checked under SpecInvoke *)

\* the target of the handle and the max_attempts its record of models.json
\* gives it (2 when the record gives none)
PrimaryId == handle.selection[1].model_config.id

RawMaxAttempts(id) ==
    GetOr(GetOr(RawModelOf(id), "retry_policy", <<>>), "max_attempts", 2)

\* the backend calls of the trace, in order
TraceCalls == SelectSeq(trace, LAMBDA e : e.kind = "call")

CallsVia(via) == Len(SelectSeq(trace, LAMBDA e : e.kind = "call" /\ e.via = via))

\* n calls through the primary capability
PrimaryRun(n) == [i \in 1..n |-> "primary"]

\* the backup path (line 167 onwards) has been entered
FailoverEntered ==
    \/ pc \in {"backup", "backup_sleep"}
    \/ /\ pc = "done"
       /\ result.at \in {"no_backup", "backup_not_found", "provider",
                         "both_throttled", "backup"}

\* no call through the primary capability follows one through the backup
PrimaryBeforeBackup ==
    \A i, j \in 1..Len(TraceCalls) :
        (i < j /\ TraceCalls[i].via = "backup") => TraceCalls[j].via = "backup"

\* C8 as claimed: with max_attempts = N, never more than N primary attempts,
\* and exactly N when the backup path is entered.
C8_ExactlyNAttempts ==
    handle.status = "ok" =>
        /\ CallsVia("primary") <= RawMaxAttempts(PrimaryId)
        /\ FailoverEntered => CallsVia("primary") = RawMaxAttempts(PrimaryId)

\* C8 amended: with max_attempts = N, never more than max(N, 1) primary
\* attempts, exactly max(N, 1) when the backup path is entered, and none
\* after the backup path is entered.
C8_ExactlyMaxN1Attempts ==
    handle.status = "ok" =>
        /\ CallsVia("primary") <= Max(RawMaxAttempts(PrimaryId), 1)
        /\ FailoverEntered =>
             CallsVia("primary") = Max(RawMaxAttempts(PrimaryId), 1)
        /\ PrimaryBeforeBackup

\* C8 witness: the backup loop is entered after two throttled primary
\* attempts under max_attempts = 2
C8_Witness ==
    /\ handle.status = "ok"
    /\ pc = "backup"
    /\ "retry_policy" \in DOMAIN RawModelOf(PrimaryId)
    /\ RawMaxAttempts(PrimaryId) = 2
    /\ CallsVia("primary") = 2

\* the sample messages that hold a throttling keyword, whatever the case
KeywordMessages ==
    { <<"R","a","t","e"," ","L","i","m","i","t"," ","h","i","t">>,
      <<"T","h","r","o","t","t","l","i","n","g","E","x">>,
      <<"4","2","9"," ","T","o","o"," ","M","a","n","y"," ","R","e","q","u","e","s","t","s">>,
      <<"t","o","k","e","n","s"," ","p","e","r"," ","m","i","n","u","t","e">> }

\* C9: a failure whose message holds no throttling keyword ends the call at
\* once: the call is over, the caller gets that very failure, the failed call
\* is the last event (no wait, no further attempt, no backup attempt after a
\* primary failure); and a wait, a retry, the backup path or an exhaustion
\* error only ever follows a failure whose message holds a keyword.
C9_OnlyThrottlingRetried ==
    /\ (last_exc # None /\ last_exc[1] \notin KeywordMessages) =>
         /\ pc = "done"
         /\ result = Propagated(trace[Len(trace)].via, last_exc[1])
         /\ trace[Len(trace)].kind = "call"
         /\ ~trace[Len(trace)].ok
         /\ result.by = "primary" => CallsVia("backup") = 0
    /\ ( \/ pc \in {"primary_sleep", "backup_sleep", "backup"}
         \/ pc = "primary" /\ trace # <<>>
         \/ pc = "done" /\ result.exc = "ThrottlingError"
         \/ CallsVia("backup") > 0 /\ result.by # "backup" )
         => (last_exc # None /\ last_exc[1] \in KeywordMessages)
    /\ \A i \in 1..Len(trace) :
         trace[i].kind = "sleep" =>
            /\ i > 1 /\ trace[i - 1].kind = "call" /\ ~trace[i - 1].ok

\* C9 witness: the second primary attempt raises "rate-limit", which holds no
\* keyword, and the call ends there although a backup is configured
C9_Witness ==
    /\ pc = "done"
    /\ Len(trace) = 3
    /\ last_exc = Some(<<"r","a","t","e","-","l","i","m","i","t">>)
    /\ result.by = "primary"
    /\ Get(RawModelOf(PrimaryId), "backup_model_id") = Some("model-backup")

\* the primary throttled on every attempt and the first backup attempt returned
BackupFirstAttemptReturned ==
    /\ pc = "done"
    /\ CallsVia("backup") = 1
    /\ trace[Len(trace)].kind = "call"
    /\ trace[Len(trace)].via = "backup"
    /\ trace[Len(trace)].ok

\* a call that returned is the last event of the trace and ends the call
SuccessIsTerminal ==
    \A i \in 1..Len(trace) :
        (trace[i].kind = "call" /\ trace[i].ok) =>
            /\ i = Len(trace)
            /\ pc = "done"
            /\ result = Returned(trace[i].via)

\* C10 as claimed: when the primary throttles on every attempt and the first
\* backup attempt returns, the call returns the backup's response after
\* exactly max_attempts primary attempts and one backup attempt; a call that
\* returned is terminal.
C10_FailoverSequence ==
    /\ BackupFirstAttemptReturned =>
         /\ result = Returned("backup")
         /\ [i \in 1..Len(TraceCalls) |-> TraceCalls[i].via]
              = PrimaryRun(RawMaxAttempts(PrimaryId)) \o <<"backup">>
    /\ SuccessIsTerminal

\* C10 amended: the same with max(max_attempts, 1) primary attempts.
C10_FailoverSequenceMaxN1 ==
    /\ BackupFirstAttemptReturned =>
         /\ result = Returned("backup")
         /\ [i \in 1..Len(TraceCalls) |-> TraceCalls[i].via]
              = PrimaryRun(Max(RawMaxAttempts(PrimaryId), 1)) \o <<"backup">>
    /\ SuccessIsTerminal

\* C10 witness: max_attempts = 2, two throttled primary attempts, then the
\* first backup attempt returns
C10_Witness ==
    /\ BackupFirstAttemptReturned
    /\ RawMaxAttempts(PrimaryId) = 2
    /\ CallsVia("primary") = 2
    /\ result = Returned("backup")

-----------------------------------------------------------------------------
(* The backup path, checked under SpecInvoke *)

\* the loaded target of the handle and the backup id its record of models.json gives
PrimaryCfg == handle.selection[1].model_config

RawBackupId == Get(RawModelOf(PrimaryId), "backup_model_id")

\* the exhaustion messages the router can raise over the loaded table
NoBackupMessages ==
    { NoBackupMessage(Config.models[k]) : k \in DOMAIN Config.models }

BackupNotFoundMessages ==
    { BackupNotFoundMessage(Config.models[k]) : k \in DOMAIN Config.models }

BothThrottledMessages ==
    { BothThrottledMessage(Config.models[k], Config.models[b]) :
        k \in DOMAIN Config.models, b \in DOMAIN Config.models }

\* every event of the trace is a call or a wait of the primary capability
OnlyPrimaryInvoked ==
    \A i \in 1..Len(trace) :
        trace[i].via = "primary" /\ trace[i].target = PrimaryId

\* the last primary attempt was throttled and max(max_attempts, 1) were made
PrimaryExhausted ==
    /\ last_exc # None
    /\ last_exc[1] \in KeywordMessages
    /\ CallsVia("primary") = Max(RawMaxAttempts(PrimaryId), 1)

\* C11: once the primary has exhausted its retries on throttling and its
\* record gives no backup target id (none, or an empty one), the call is over with the ThrottlingError
\* "... throttled and no backup_model_id configured", which is none of the
\* messages of the backup-not-found and both-throttled errors, and every
\* backend call and wait of the invocation went through the primary's
\* capability; conversely that error is only raised after such an exhaustion
\* by a primary whose backup id is absent or empty.
C11_NoBackupError ==
    handle.status = "ok" =>
        /\ (FailoverEntered /\ ~TruthyStr(RawBackupId)) =>
              /\ pc = "done"
              /\ result = Failed("ThrottlingError", "no_backup",
                                 Some(NoBackupMessage(PrimaryCfg)))
              /\ result.msg[1] \notin BackupNotFoundMessages \cup BothThrottledMessages
              /\ OnlyPrimaryInvoked
              /\ call.backup = None /\ call.backup_client = None
        /\ result.at = "no_backup" =>
              /\ PrimaryExhausted
              /\ ~TruthyStr(RawBackupId)
        /\ NoBackupMessages \cap (BackupNotFoundMessages \cup BothThrottledMessages) = {}

\* C11 witness: two throttled attempts of a primary without backup id, then
\* the no-backup error
C11_Witness ==
    /\ handle.status = "ok"
    /\ pc = "done"
    /\ RawBackupId = None
    /\ result.at = "no_backup"
    /\ CallsVia("primary") = 2
    /\ Len(trace) = 3

\* the primary's record names a backup id that no record of models.json bears
DanglingBackupId == TruthyStr(RawBackupId) /\ RawBackupId[1] \notin RawIds

\* C12: once the primary has exhausted its retries on throttling and its
\* backup id names no target of the loaded table, the call is over with the
\* ThrottlingError "Backup model ... not found in config", which is none of
\* the messages of the no-backup and both-throttled errors; no backup target
\* was resolved, no backup capability was built and every backend call and
\* wait went through the primary's capability; conversely that error is only
\* raised after such an exhaustion with such an id; and the loaded table
\* holds exactly the targets of models.json.
C12_BackupNotFoundError ==
    handle.status = "ok" =>
        /\ (FailoverEntered /\ DanglingBackupId) =>
              /\ pc = "done"
              /\ result = Failed("ThrottlingError", "backup_not_found",
                                 Some(BackupNotFoundMessage(PrimaryCfg)))
              /\ result.msg[1] \notin NoBackupMessages \cup BothThrottledMessages
              /\ OnlyPrimaryInvoked
              /\ call.backup = None /\ call.backup_client = None
        /\ result.at = "backup_not_found" =>
              /\ PrimaryExhausted
              /\ DanglingBackupId
        /\ BackupNotFoundMessages \cap (NoBackupMessages \cup BothThrottledMessages) = {}
        /\ DOMAIN Config.models = RawIds

\* C12 witness: two throttled attempts of a primary whose backup id is
\* "model-ghost", then the backup-not-found error
C12_Witness ==
    /\ handle.status = "ok"
    /\ pc = "done"
    /\ RawBackupId = Some("model-ghost")
    /\ result.at = "backup_not_found"
    /\ CallsVia("primary") = 2
    /\ Len(trace) = 3

\* the backup target the call resolved and what its record of models.json
\* gives as retry policy (2 attempts and 200 ms when the record gives none)
BackupId == call.backup[1].id

RawBackoff(id) ==
    GetOr(GetOr(RawModelOf(id), "retry_policy", <<>>), "backoff_ms", 200)

SleepsVia(via) == Len(SelectSeq(trace, LAMBDA e : e.kind = "sleep" /\ e.via = via))

\* every backup attempt so far failed, the last one on throttling, and the
\* call is over
BackupAlwaysThrottled ==
    /\ pc = "done"
    /\ CallsVia("backup") > 0
    /\ \A i \in 1..Len(trace) : trace[i].via = "backup" => ~trace[i].ok
    /\ last_exc[1] \in KeywordMessages

\* every wait of the backup loop lasts the backup's backoff interval and
\* follows a failed backup attempt
BackupWaits ==
    \A i \in 1..Len(trace) :
        (trace[i].kind = "sleep" /\ trace[i].via = "backup") =>
            /\ trace[i].ms = RawBackoff(BackupId)
            /\ trace[i - 1].kind = "call"
            /\ trace[i - 1].via = "backup"

\* C13 as claimed: with backup max_attempts = M, never more than M backup
\* attempts; when every backup attempt is throttled, exactly M are made, each
\* wait of the backup loop lasts the backup's backoff interval, and the call
\* fails with the both-throttled error.
C13_BackupLoopBound ==
    call.backup # None =>
        /\ CallsVia("backup") <= RawMaxAttempts(BackupId)
        /\ BackupAlwaysThrottled =>
              /\ CallsVia("backup") = RawMaxAttempts(BackupId)
              /\ result = Failed("ThrottlingError", "both_throttled",
                                 Some(BothThrottledMessage(PrimaryCfg, call.backup[1])))
        /\ BackupWaits

\* C13 amended: the same with max(M, 1) backup attempts, one wait between
\* two consecutive backup attempts, and the both-throttled error raised only
\* after such a run.
C13_BackupLoopBoundMaxM1 ==
    call.backup # None =>
        /\ CallsVia("backup") <= Max(RawMaxAttempts(BackupId), 1)
        /\ BackupAlwaysThrottled =>
              /\ CallsVia("backup") = Max(RawMaxAttempts(BackupId), 1)
              /\ SleepsVia("backup") = CallsVia("backup") - 1
              /\ result = Failed("ThrottlingError", "both_throttled",
                                 Some(BothThrottledMessage(PrimaryCfg, call.backup[1])))
              /\ result.msg[1] \notin NoBackupMessages \cup BackupNotFoundMessages
        /\ result.at = "both_throttled" => BackupAlwaysThrottled
        /\ BackupWaits

\* C13 witness: a primary of max_attempts = 1 and backoff 100 ms, a backup of
\* max_attempts = 2 and backoff 300 ms: two throttled backup attempts with
\* one wait of 300 ms between them, then the both-throttled error
C13_Witness ==
    /\ call.backup # None
    /\ result.at = "both_throttled"
    /\ RawMaxAttempts(PrimaryId) = 1
    /\ RawBackoff(PrimaryId) = 100
    /\ RawMaxAttempts(BackupId) = 2
    /\ CallsVia("backup") = 2
    /\ \E i \in 1..Len(trace) :
          trace[i].kind = "sleep" /\ trace[i].via = "backup" /\ trace[i].ms = 300

\* what the configuration files give: the default parameters of a target and
\* the overrides of the rule that selected the primary (none on the default path)
RawDefaultParams(id) == GetOr(RawModelOf(id), "default_params", <<>>)

RawOverrides ==
    IF selection.rule = 0 THEN <<>>
    ELSE GetOr(raw.rules[selection.rule], "override_params", <<>>)

\* the parameters the primary selection merged
PrimaryParams == MergeParams(RawDefaultParams(PrimaryId), RawOverrides)

\* C14: the backup capability is built with exactly the default parameters
\* the backup's record of models.json gives, so a key of the rule's overrides
\* or of the primary's defaults that the backup's defaults lack is absent
\* from them; every call through the backup carries these parameters and
\* every call through the primary the parameters of the primary selection
\* (its defaults overlaid with the rule's overrides), so no call carries a
\* mix of the two.
C14_BackupOwnParams ==
    handle.status = "ok" =>
        /\ handle.provider_client[1].params = PrimaryParams
        /\ call.backup # None =>
              /\ call.backup_client[1].params = RawDefaultParams(BackupId)
              /\ \A k \in (DOMAIN RawOverrides \cup DOMAIN RawDefaultParams(PrimaryId))
                            \ DOMAIN RawDefaultParams(BackupId) :
                    k \notin DOMAIN call.backup_client[1].params
        /\ \A i \in 1..Len(trace) :
              trace[i].kind = "call" =>
                  IF trace[i].via = "primary"
                  THEN /\ trace[i].params = PrimaryParams
                       /\ trace[i].target = PrimaryId
                  ELSE /\ trace[i].params = RawDefaultParams(BackupId)
                       /\ trace[i].target = BackupId

\* C14 witness: a primary selected by a rule whose overrides collide with its
\* defaults, a backup whose defaults differ from both, and a backup call
C14_Witness ==
    /\ handle.status = "ok"
    /\ selection.rule # 0
    /\ call.backup # None
    /\ CallsVia("backup") > 0
    /\ BackupId # PrimaryId
    /\ \E k \in DOMAIN RawOverrides \cap DOMAIN RawDefaultParams(PrimaryId) :
          /\ k \in DOMAIN RawDefaultParams(BackupId)
          /\ RawOverrides[k] # RawDefaultParams(PrimaryId)[k]
          /\ RawOverrides[k] # RawDefaultParams(BackupId)[k]
          /\ RawDefaultParams(PrimaryId)[k] # RawDefaultParams(BackupId)[k]
    /\ DOMAIN RawOverrides \ DOMAIN RawDefaultParams(BackupId) # {}
    /\ DOMAIN RawDefaultParams(BackupId) \ DOMAIN PrimaryParams # {}

\* the task kind the primary's record of models.json declares
RawType(id) == RawModelOf(id).type

\* C15: a chat call on a handle whose target is not of kind chat, or an embed
\* call on one whose target is not of kind embedding, ends at once with the
\* TypeError of the handle: no backend attempt, no wait, no backup resolved,
\* the attempt counter untouched; and the retry/failover protocol is only
\* ever entered by a call whose kind is the target's.
C15_TypeMismatchBeforeProtocol ==
    (handle.status = "ok" /\ pc # "idle") =>
        IF call.op = ""
        THEN /\ pc = "done"
             /\ result.exc = "TypeError"
             /\ result.at = "type_mismatch"
             /\ \E op \in {"chat", "embed"} :
                   /\ result.msg = Some(TypeMismatchMessage(op))
                   /\ RawType(PrimaryId) # (IF op = "chat" THEN "chat" ELSE "embedding")
             /\ trace = <<>>
             /\ attempt = 0
             /\ last_exc = None
             /\ call = NoCall
        ELSE /\ RawType(PrimaryId) = (IF call.op = "chat" THEN "chat" ELSE "embedding")
             /\ result.at # "type_mismatch"

\* C15 witness: chat called on a handle of the embedding target
C15_Witness ==
    /\ handle.status = "ok"
    /\ RawType(PrimaryId) = "embedding"
    /\ result = Failed("TypeError", "type_mismatch", Some(TypeMismatchMessage("chat")))
    /\ trace = <<>>

\* the other direction: embed called on a handle of a chat target ends the same way
TypeMismatchOnEmbed ==
    /\ handle.status = "ok"
    /\ RawType(PrimaryId) = "chat"
    /\ result = Failed("TypeError", "type_mismatch", Some(TypeMismatchMessage("embed")))

\* C16: every call through the backup capability is the operation the caller
\* invoked on the handle (chat for chat, embed for embed), on a backup target
\* of the primary's task kind; a backup of another kind is never called.
C16_BackupSameOperation ==
    handle.status = "ok" =>
        \A i \in 1..Len(trace) :
            (trace[i].kind = "call" /\ trace[i].via = "backup") =>
                /\ trace[i].op = call.op
                /\ RawType(trace[i].target) = RawType(PrimaryId)

\* What the code does instead: the operation run on the backup is the one of
\* the backup's own task kind, whatever the caller invoked.
BackupOpFollowsBackupKind ==
    handle.status = "ok" =>
        \A i \in 1..Len(trace) :
            (trace[i].kind = "call" /\ trace[i].via = "backup") =>
                trace[i].op = (IF RawType(trace[i].target) = "chat" THEN "chat" ELSE "embed")

-----------------------------------------------------------------------------
(* Reloads of the configuration while a router serves a request *)

\* two configurations that differ in every target, rule and default, and one
\* whose rule lacks its target reference
ReloadA ==
    [models |-> << Primary([retry_policy |-> [max_attempts |-> 1, backoff_ms |-> 100]],
                           [backup_model_id |-> "model-backup"]),
                   Backup(<<>>), EmbedPrimary >>,
     rules |-> InvokeRules, defaults |-> InvokeDefaults]

ReloadB ==
    [models |-> << RawModel("model-strong", "gemini", "chat")
                     @@ ("default_params" :> [temperature |-> 4])
                     @@ ("backup_model_id" :> "model-embed"),
                   RawModel("model-backup", "bedrock", "chat")
                     @@ ("default_params" :> [temperature |-> 5]),
                   RawModel("model-embed", "gemini", "chat") >>,
     rules |-> << RawRule("r-all", <<>>, "model-backup") >>,
     defaults |-> [chat |-> "model-backup"]]

ReloadBroken ==
    [models |-> ReloadB.models,
     rules |-> << [id |-> "r-all", when |-> <<>>] >>,
     defaults |-> ReloadB.defaults]

ReloadConfigs == { ReloadA, ReloadB, ReloadBroken }

\* a backend call returns, is throttled, or fails otherwise
ReloadOutcomes ==
    { None, Some(<<"R","a","t","e"," ","L","i","m","i","t"," ","h","i","t">>),
      Some(<<"t","i","m","e","o","u","t">>) }

InitReload ==
    /\ raw \in ReloadConfigs
    /\ Idle

NextReload ==
    \/ \E data \in ReloadConfigs : EditConfig(data)
    \/ \E force_reload \in BOOLEAN : GetConfig(force_reload)
    \/ RouterInit
    \/ \E task \in InvokeTasks : SelectModel(task)
    \/ \E op \in {"chat", "embed"} : HandleCall(op)
    \/ \E outcome \in ReloadOutcomes : PrimaryAttempt(outcome)
    \/ PrimarySleep
    \/ \E outcome \in ReloadOutcomes : BackupAttempt(outcome)
    \/ BackupSleep

SpecReload == InitReload /\ [][NextReload]_vars

\* the tables of the configurations the loader accepts, each parsed whole
WholeTables ==
    { Load(d).config[1] : d \in { c \in ReloadConfigs : Load(c).status = "ok" } }

\* every constructed table is the parse of one configuration
OneLoadEach == \A r \in DOMAIN heap : heap[r] \in WholeTables

\* a step leaves every constructed table as it is; a step that changes the
\* loader's cache makes it refer to a table constructed in that step from
\* the configuration as it is read in that step; a router keeps its table
ReloadStep ==
    /\ \A r \in DOMAIN heap : r \in DOMAIN heap' /\ heap'[r] = heap[r]
    /\ cache' # cache =>
          /\ cache' = Some(Len(heap) + 1)
          /\ heap' = Append(heap, Load(raw).config[1])
    /\ router_config # None => router_config' = router_config

\* what a request has read of the router's table is what the table holds:
\* the selection is the selector's outcome on it, the primary is its target
\* and the backup the failover resolved is the target the primary names in it
ReadsOneTable ==
    /\ request # None => selection = select_model_for_features(Config, Feat)
    /\ handle.status = "ok" => PrimaryCfg = Config.models[PrimaryId]
    /\ call.backup # None =>
          call.backup[1] = Config.models[PrimaryCfg.backup_model_id[1]]

-----------------------------------------------------------------------------
(* The loader on its own: configurations that lack required fields *)

\* a record without one of its keys
Without(rec, key) == [k \in DOMAIN rec \ {key} |-> rec[k]]

\* ReloadB with the second target record lacking a key
LackingInModel(key) ==
    [models |-> << ReloadB.models[1], Without(ReloadB.models[2], key),
                   ReloadB.models[3] >>,
     rules |-> ReloadB.rules, defaults |-> ReloadB.defaults]

\* ReloadA with a second rule record that lacks a key
LackingInRule(key) ==
    [models |-> ReloadA.models,
     rules |-> ReloadA.rules \o
               << Without(RawRule("r-all", <<>>, "model-strong"), key) >>,
     defaults |-> ReloadA.defaults]

LoadConfigs ==
    { ReloadA, ReloadB }
      \cup { LackingInModel(key) : key \in {"id", "provider", "type", "model_id"} }
      \cup { LackingInRule(key) : key \in {"id", "use_model"} }
      \cup { LackingInRule("when"), LackingInModel("default_params") }

InitLoad ==
    /\ raw \in LoadConfigs
    /\ Idle

NextLoad ==
    \/ \E data \in LoadConfigs : EditConfig(data)
    \/ \E force_reload \in BOOLEAN : GetConfig(force_reload)
    \/ RouterInit

SpecLoad == InitLoad /\ [][NextLoad]_vars

\* the configuration holds a target record without id, provider, task kind
\* or backend model identifier, or a rule record without id or target
Lacking(data) ==
    \/ \E i \in 1..Len(data.models) :
          {"id", "provider", "type", "model_id"} \ DOMAIN data.models[i] # {}
    \/ \E i \in 1..Len(data.rules) :
          {"id", "use_model"} \ DOMAIN data.rules[i] # {}

\* the tables of the configurations that lack no required field
CompleteTables ==
    { Load(d).config[1] : d \in { c \in LoadConfigs : ~Lacking(c) } }

\* a step of the loader (every step that leaves the files alone is one):
\* under a configuration that lacks a required field it changes neither the
\* cache nor any table, and a call that read the files raised and returned
\* no table; a call without forced reload on a loader that holds a table
\* returns that table
LoadStep ==
    /\ (raw' = raw /\ Lacking(raw)) =>
          /\ cache' = cache
          /\ heap' = heap
          /\ router_config' # router_config => router_config' = cache
    /\ ( /\ loaded' # loaded
         /\ loaded'.force_reload \/ cache = None
         /\ Lacking(raw) ) =>
          /\ loaded'.status = "raise"
          /\ loaded'.exc = "KeyError"
          /\ loaded'.config = None
    /\ (loaded' # loaded /\ ~loaded'.force_reload /\ cache # None) =>
          /\ loaded'.status = "ok"
          /\ loaded'.config = cache
          /\ cache' = cache
          /\ heap' = heap

\* C19: a load or reload that reads a configuration with a target record
\* lacking id, provider, task kind or backend model identifier, or a rule
\* record lacking id or target reference, raises, returns no table,
\* constructs none and leaves the loader's cache as it was, so that the next
\* load without forced reload returns the table cached before; no table
\* ever holds a record completed with a default for such a field.
C19_FailedLoadPublishesNothing ==
    /\ [][LoadStep]_vars
    /\ [](\A r \in DOMAIN heap : heap[r] \in CompleteTables)
    /\ [](cache # None => cache[1] \in DOMAIN heap)

\* C19 witness: a forced reload raised under a configuration that lacks a
\* field, on a loader whose cache still refers to the table loaded before
C19_Witness ==
    /\ Lacking(raw)
    /\ cache = Some(1)
    /\ Len(heap) = 1
    /\ loaded.applied
    /\ loaded.force_reload
    /\ loaded.status = "raise"
    /\ loaded.config = None

\* a load without forced reload returned the cached table although the
\* files as they are now lack a field
CachedTableReturned ==
    /\ Lacking(raw)
    /\ cache = Some(1)
    /\ loaded.applied
    /\ ~loaded.force_reload
    /\ loaded.status = "ok"
    /\ loaded.config = cache

-----------------------------------------------------------------------------
(* The frame of an invocation, checked under SpecInvoke *)

\* a step of a call, from the entry of ModelHandle.chat or ModelHandle.embed
\* to its end, leaves alone the configuration files, the loader's cache,
\* every constructed table, the router's reference and table, the request,
\* the selection and the handle
InvocationStep ==
    pc' # "idle" =>
        /\ router_config' = router_config
        /\ Config' = Config
        /\ heap' = heap
        /\ cache' = cache
        /\ raw' = raw
        /\ request' = request
        /\ selection' = selection
        /\ handle' = handle

\* during and after a call the router's table is the parse of the
\* configuration files and the handle's target is the table's
TableAsLoaded ==
    pc # "idle" =>
        /\ Config = Load(raw).config[1]
        /\ PrimaryCfg = Config.models[PrimaryId]
        /\ \A id \in RawIds :
              /\ Config.models[id].id = id
              /\ Config.models[id].retry_policy.max_attempts = RawMaxAttempts(id)
              /\ Config.models[id].retry_policy.backoff_ms = RawBackoff(id)
              /\ Config.models[id].default_params = RawDefaultParams(id)
              /\ Config.models[id].backup_model_id = Get(RawModelOf(id), "backup_model_id")

\* C20: no step of an invocation, from its entry to its terminal outcome,
\* changes the router's table or any target in it (ids, retry policies,
\* default parameters, backup ids), nor the loader's cache, the selection or
\* the handle: in every state of the invocation the table is the one that
\* was loaded; what the steps change is the state of that invocation only.
C20_InvokerFrame ==
    /\ [][InvocationStep]_vars
    /\ []TableAsLoaded

\* C20 witness: an invocation that went through waits in both loops and
\* ended with the both-throttled error
C20_Witness ==
    /\ pc = "done"
    /\ result.at = "both_throttled"
    /\ SleepsVia("primary") > 0
    /\ SleepsVia("backup") > 0
    /\ TableAsLoaded

-----------------------------------------------------------------------------
(* Two calls on one router: main.py keeps one ModelRouter for every request, *)
(* and each call of _call_with_retry_and_fallback keeps its counter, policy  *)
(* and backup in its own frame. Checked under SpecConcurrent                 *)

\* the frame of the running thread
This == Frame(request, selection, handle, call, pc, attempt, last_exc, trace, result)

\* a mutated switch: the attempt counter is kept in the router, so that the
\* resumed thread goes on counting where the suspended one stopped
SwitchSharingAttempt ==
    /\ router_config # None
    /\ request' = other.request
    /\ selection' = other.selection
    /\ handle' = other.handle
    /\ call' = other.call
    /\ pc' = other.pc
    /\ attempt' = attempt
    /\ last_exc' = other.last_exc
    /\ trace' = other.trace
    /\ result' = other.result
    /\ other' = This
    /\ UNCHANGED <<raw, cache, heap, loaded, router_config, probe>>

\* the running thread is suspended between two steps and the other thread is
\* resumed: every local of select_model and of _call_with_retry_and_fallback
\* (model_cfg, policy, attempt, backup_cfg, backup_client) goes with its frame,
\* the router and the loader stay
Switch ==
    /\ router_config # None
    /\ request' = other.request
    /\ selection' = other.selection
    /\ handle' = other.handle
    /\ call' = other.call
    /\ pc' = other.pc
    /\ attempt' = other.attempt
    /\ last_exc' = other.last_exc
    /\ trace' = other.trace
    /\ result' = other.result
    /\ other' = This
    /\ UNCHANGED <<raw, cache, heap, loaded, router_config, probe>>

\* concurrency slice: the chat primary's retry policy varies, its backup and
\* the embedding primary (max_attempts = 1) are fixed
ConcurrentConfigs ==
    { [models |-> <<Primary(retry, [backup_model_id |-> "model-backup"]),
                    Backup([retry_policy |-> [max_attempts |-> MaxAttempts,
                                              backoff_ms |-> 300]]),
                    EmbedPrimary, Legacy>>,
       rules |-> InvokeRules, defaults |-> InvokeDefaults] :
        retry \in RawRetries(100) }

\* a chat request and an embedding request
ConcurrentTasks ==
    { [text |-> [len |-> 4, ascii |-> 4, trigger |-> FALSE], task_type |-> k,
       context_tokens |-> None, tenant_tier |-> "standard"] :
        k \in {"chat", "embedding"} }

InitConcurrent ==
    /\ raw \in ConcurrentConfigs
    /\ Idle

NextConcurrent ==
    \/ RouterInit
    \/ \E task \in ConcurrentTasks : SelectModel(task)
    \/ \E op \in {"chat", "embed"} : HandleCall(op)
    \/ \E outcome \in ReloadOutcomes : PrimaryAttempt(outcome)
    \/ PrimarySleep
    \/ \E outcome \in ReloadOutcomes : BackupAttempt(outcome)
    \/ BackupSleep
    \/ Switch

SpecConcurrent == InitConcurrent /\ [][NextConcurrent]_vars

\* the target of a frame's handle, and the calls of a frame through a capability
TargetOf(f) == f.handle.selection[1].model_config

CallsOf(f, via) ==
    SelectSeq(f.trace, LAMBDA e : e.kind = "call" /\ e.via = via)

FailoverEnteredIn(f) ==
    \/ f.pc \in {"backup", "backup_sleep"}
    \/ /\ f.pc = "done"
       /\ f.result.at \in {"no_backup", "backup_not_found", "provider",
                           "both_throttled", "backup"}

\* the frame's phase and counter follow from its own calls: the counter is the
\* number of calls of the loop it is in, the backup path is entered only after
\* failed primary calls, and the backup loop never returns to the primary
PhaseFromOwnCalls(f) ==
    /\ f.pc = "idle" => f.trace = <<>>
    /\ f.pc \in {"primary", "primary_sleep"} =>
         /\ f.attempt = Len(CallsOf(f, "primary"))
         /\ CallsOf(f, "backup") = <<>>
    /\ f.pc \in {"backup", "backup_sleep"} =>
         f.attempt = Len(CallsOf(f, "backup"))
    /\ f.pc \in {"primary_sleep", "backup_sleep"} =>
         /\ f.trace # <<>>
         /\ f.trace[Len(f.trace)].kind = "call"
         /\ ~f.trace[Len(f.trace)].ok
    /\ FailoverEnteredIn(f) =>
         /\ CallsOf(f, "primary") # <<>>
         /\ \A i \in 1..Len(CallsOf(f, "primary")) : ~CallsOf(f, "primary")[i].ok
    /\ CallsOf(f, "backup") # <<>> => FailoverEnteredIn(f)

\* the frame's calls go to its own target and to that target's backup
OwnTargets(f) ==
    \A i \in 1..Len(f.trace) :
        /\ f.trace[i].via = "primary" => f.trace[i].target = TargetOf(f).id
        /\ f.trace[i].via = "backup" =>
             Some(f.trace[i].target) = Get(RawModelOf(TargetOf(f).id), "backup_model_id")

\* the frame's outcome follows from its own last call
OutcomeFromOwnCalls(f) ==
    f.pc = "done" /\ f.trace # <<>> =>
        LET last == f.trace[Len(f.trace)]
        IN  /\ last.kind = "call"
            /\ IF last.ok
               THEN f.result = Returned(last.via)
               ELSE /\ f.last_exc # None
                    /\ IF is_throttling_error(f.last_exc[1])
                       THEN /\ f.result.exc \in {"ThrottlingError", "ValueError"}
                            /\ f.result.by = ""
                       ELSE f.result = Propagated(last.via, f.last_exc[1])

OwnRun(f) ==
    f.handle.status = "ok" =>
        /\ PhaseFromOwnCalls(f)
        /\ OwnTargets(f)
        /\ OutcomeFromOwnCalls(f)

\* a step of one thread leaves the frame of the other as it is, and a switch
\* exchanges the two frames unchanged
OtherUntouched ==
    \/ other' = other
    \/ other' = This /\ This' = other

\* both threads are past the selection, and each has made a call
BothCalling ==
    /\ This.handle.status = "ok"
    /\ other.handle.status = "ok"

\* C21 as claimed: for two concurrent calls on one router, each makes at most
\* its own target's max_attempts primary attempts, and its phase, targets and
\* outcome follow from its own backend calls.
C21_OwnAttemptsAtMostN ==
    \A f \in {This, other} :
        f.handle.status = "ok" =>
            /\ Len(CallsOf(f, "primary")) <= RawMaxAttempts(TargetOf(f).id)
            /\ OwnRun(f)

\* C21 amended: for two concurrent calls on one router, under every
\* interleaving of their attempts and waits, each makes at most
\* max(max_attempts, 1) primary attempts of its own target (exactly that many
\* when it fails over), its counter, phase, targets and outcome follow from its
\* own backend calls, and no attempt, wait or failover of one changes the
\* frame of the other.
C21_OwnAttemptsAtMostMaxN1 ==
    /\ [](\A f \in {This, other} :
            f.handle.status = "ok" =>
                /\ Len(CallsOf(f, "primary")) <= Max(RawMaxAttempts(TargetOf(f).id), 1)
                /\ FailoverEnteredIn(f) =>
                     Len(CallsOf(f, "primary")) = Max(RawMaxAttempts(TargetOf(f).id), 1)
                /\ OwnRun(f))
    /\ [][OtherUntouched]_vars

\* C21 witness: the two calls use different targets; the running one has
\* failed over after two throttled attempts and a wait while the other,
\* suspended in its own backup loop, keeps its single primary attempt
C21_Witness ==
    /\ BothCalling
    /\ TargetOf(This).id = "model-strong"
    /\ TargetOf(other).id = "model-embed"
    /\ pc = "backup"
    /\ Len(CallsOf(This, "primary")) = 2
    /\ other.pc = "backup_sleep"
    /\ Len(CallsOf(other, "primary")) = 1
    /\ Len(CallsOf(other, "backup")) = 1

-----------------------------------------------------------------------------
(* Where the waits fall, checked under SpecInvoke *)

\* the loop of a capability is over: the primary's once the backup path is
\* entered or the call has ended, the backup's once the call has ended
LoopOver(via) ==
    IF via = "primary" THEN FailoverEntered \/ pc = "done" ELSE pc = "done"

\* a wait stands between two attempts of one loop on one target: a failed
\* attempt before it, and after it the next attempt, or the loop about to
\* make it
WaitsBetweenAttempts ==
    \A i \in 1..Len(trace) :
        trace[i].kind = "sleep" =>
            /\ i > 1
            /\ trace[i - 1].kind = "call"
            /\ ~trace[i - 1].ok
            /\ trace[i - 1].via = trace[i].via
            /\ trace[i - 1].target = trace[i].target
            /\ IF i < Len(trace)
               THEN /\ trace[i + 1].kind = "call"
                    /\ trace[i + 1].via = trace[i].via
                    /\ trace[i + 1].target = trace[i].target
               ELSE pc = trace[i].via
            /\ trace[i].ms = RawBackoff(trace[i].target)

\* a wait is entered only on a throttled attempt, and the call never ends,
\* nor the backup path begins, on a wait
WaitsOnThrottlingOnly ==
    /\ ( \/ pc \in {"primary_sleep", "backup_sleep"}
         \/ (trace # <<>> /\ trace[Len(trace)].kind = "sleep") ) =>
            /\ last_exc # None
            /\ last_exc[1] \in KeywordMessages
    /\ pc \in {"primary_sleep", "backup_sleep"} =>
            /\ trace[Len(trace)].kind = "call"
            /\ ~trace[Len(trace)].ok
    /\ (pc = "done" /\ trace # <<>>) => trace[Len(trace)].kind = "call"

\* a loop that is over after k attempts has made k - 1 waits; a loop that is
\* running has made as many waits as attempts when it is about to attempt,
\* and one less when it is about to wait
WaitsCounted ==
    \A via \in {"primary", "backup"} :
        /\ (LoopOver(via) /\ CallsVia(via) > 0) => SleepsVia(via) = CallsVia(via) - 1
        /\ pc = via => SleepsVia(via) = CallsVia(via)
        /\ pc = via \o "_sleep" => SleepsVia(via) = CallsVia(via) - 1
        /\ CallsVia(via) = 0 => SleepsVia(via) = 0

\* C24: in each retry loop a wait occurs only between a throttled attempt and
\* the next attempt on the same target: none before the first attempt, none
\* after the attempt that ends the loop (by exhaustion, success or a
\* non-throttling failure), so that a loop of k attempts makes k - 1 waits,
\* each of the tried target's configured backoff interval.
C24_WaitsOnlyBetweenAttempts ==
    handle.status = "ok" =>
        /\ WaitsBetweenAttempts
        /\ WaitsOnThrottlingOnly
        /\ WaitsCounted

\* C24 witness: the primary loop made two attempts and one wait of 100 ms,
\* the backup loop two attempts and one wait of 300 ms, and the call ended
\* on the second throttled backup attempt
C24_Witness ==
    /\ pc = "done"
    /\ [i \in 1..Len(trace) |-> <<trace[i].kind, trace[i].via, trace[i].ms>>]
         = << <<"call", "primary", 0>>, <<"sleep", "primary", 100>>,
              <<"call", "primary", 0>>, <<"call", "backup", 0>>,
              <<"sleep", "backup", 300>>, <<"call", "backup", 0>> >>
    /\ ~trace[Len(trace)].ok
    /\ result.at = "both_throttled"

-----------------------------------------------------------------------------
(* Termination of a call, checked under SpecInvokeFair *)

\* a step of the two loops: a backend call that returns or raises, or a wait
\* that ends
InvokerStep ==
    \/ \E outcome \in Outcomes : PrimaryAttempt(outcome)
    \/ PrimarySleep
    \/ \E outcome \in Outcomes : BackupAttempt(outcome)
    \/ BackupSleep

\* every backend call returns or raises and every time.sleep returns
SpecInvokeFair == SpecInvoke /\ WF_vars(InvokerStep)

InLoop == pc \in {"primary", "primary_sleep", "backup", "backup_sleep"}

\* the backup attempts a call may make with the attempt bound `bound`: those
\* of the target its primary's record names as backup, none when that id
\* names no record
BackupShare(bound(_)) ==
    IF RawBackupId # None /\ RawBackupId[1] \in RawIds
    THEN bound(RawBackupId[1])
    ELSE 0

AtLeastOnce(id) == Max(RawMaxAttempts(id), 1)

\* failover happens once, and to the target the primary's own record names:
\* no primary call follows a backup call, every backup call goes to that one
\* target, and the id its record names as backup is not looked up
SingleFailover ==
    /\ PrimaryBeforeBackup
    /\ \A i \in 1..Len(trace) :
         /\ trace[i].via = "primary" => trace[i].target = PrimaryId
         /\ trace[i].via = "backup" => Some(trace[i].target) = RawBackupId
    /\ call.backup # None =>
         /\ Some(BackupId) = RawBackupId
         /\ call.backup_client # None
    /\ result.at = "backup_not_found" => CallsVia("backup") = 0

\* C23 as claimed: a call makes at most the primary's max_attempts plus the
\* backup's max_attempts backend calls, and fails over at most once.
C23_CallsAtMostNPlusM ==
    handle.status = "ok" =>
        /\ Len(TraceCalls) <= RawMaxAttempts(PrimaryId) + BackupShare(RawMaxAttempts)
        /\ SingleFailover

\* C23 amended: when every backend call returns or raises, a call that has
\* entered its loops ends; it makes at most max(N, 1) primary and max(M, 1)
\* backup calls, N and M the max_attempts of the primary and of its backup;
\* it fails over at most once, to the backup the primary names, whatever
\* backup id that backup's record names (another target, the primary, itself).
C23_TerminatesWithinMaxN1PlusMaxM1 ==
    /\ [](handle.status = "ok" =>
            /\ CallsVia("primary") <= AtLeastOnce(PrimaryId)
            /\ CallsVia("backup") <= BackupShare(AtLeastOnce)
            /\ Len(TraceCalls) <= AtLeastOnce(PrimaryId) + BackupShare(AtLeastOnce)
            /\ SingleFailover)
    /\ InLoop ~> (pc = "done")

\* C23 witness: the primary names a backup whose record names the primary as
\* its own backup; both loops are exhausted after two throttled calls each
\* and the call is over with the both-throttled error
C23_Witness ==
    /\ pc = "done"
    /\ result.at = "both_throttled"
    /\ RawBackupId = Some("model-backup")
    /\ Get(RawModelOf("model-backup"), "backup_model_id") = Some(PrimaryId)
    /\ CallsVia("primary") = 2
    /\ CallsVia("backup") = 2
    /\ Len(TraceCalls) = 4

\* the primary names itself as backup: its second loop runs once more on
\* the same target and the call is over
SelfBackupExhausted ==
    /\ pc = "done"
    /\ result.at = "both_throttled"
    /\ RawBackupId = Some(PrimaryId)
    /\ CallsVia("backup") = AtLeastOnce(PrimaryId)

=============================================================================
